---- MODULE Spec2Model ----
(***************************************************************************)
(* TabTracker: the session state persistence subsystem of the background   *)
(* script (src/popup/popup.css holds the background script's text).        *)
(*                                                                         *)
(* The model follows the script handler by handler.  Every await (or       *)
(* callback) of a handler is one atomic step: the step performs the        *)
(* awaited host operation and then runs the synchronous code that follows  *)
(* it, up to the next host call, which it leaves in flight.  Steps of      *)
(* different handlers interleave.  The user acts at a human pace: a tab is *)
(* opened or closed while no request is being served, and a request is     *)
(* sent while no event listener is running; the two requests, and the      *)
(* listeners that a request sets off, run concurrently.                    *)
(*                                                                         *)
(* Abstractions: title, favIconUrl, groupId and name are not represented;  *)
(* in a snapshot a tab is its identity and its position, and the time of   *)
(* capture is read from a logical clock.  The URL of a live tab is the     *)
(* parts of it that the queue cache reads.  The tab-removed listener has   *)
(* two halves, on two storage keys: CloseTab sets off the half that keeps  *)
(* tabRelationships, CloseQueueTab the half that keeps youtubeQueues.      *)
(***************************************************************************)
EXTENDS Integers, Sequences, FiniteSets, TLC

\* ---------------------------------------------------------------- bounds
MaxTab == 3          \* tab identities the host hands out: 1..MaxTab
MaxWin == 2          \* window identities the host hands out: 1..MaxWin
MaxOpens == 2        \* tabs the user opens
MaxCloses == 1       \* tabs the user closes
MaxCaptures == 1     \* deactivateWindow requests
MaxRestores == 1     \* reactivateWindow requests
MaxPinned == 1       \* at most this many tabs of a window are pinned
MaxImports == 2      \* importInactiveWindows requests
MaxExports == 1      \* exportInactiveWindows requests
MaxNavigations == 2  \* page loads that complete in a tab
MaxLookups == 1      \* getTabs requests

TabIds == 1..MaxTab
WinIds == 1..MaxWin

\* JavaScript's undefined, for an identity-valued field or map entry
undefined == 0

TabOrUndef == TabIds \cup {undefined}

\* --------------------------------------------------------------- helpers
Range(s) == {s[i] : i \in DOMAIN s}

Min(a, b) == IF a < b THEN a ELSE b

\* Array.prototype.unshift: x becomes the first element
Unshift(list, x) == <<x>> \o list

\* mutant: the first element is removed whatever the index
Splice_shift(list, i) == Tail(list)

\* Array.prototype.splice(i, 1) with a 0-based index i
Splice(list, i) == SubSeq(list, 1, i) \o SubSeq(list, i + 2, Len(list))

\* the host places a created tab at position index (0-based), clamped
InsertAt(s, index, t) ==
    LET p == Min(index, Len(s))
    IN  SubSeq(s, 1, p) \o <<t>> \o SubSeq(s, p + 1, Len(s))

\* s without the element t
Without(s, t) == SelectSeq(s, LAMBDA x : x # t)

EmptyRelationships == [t \in TabIds |-> undefined]
EmptyMapping == [t \in TabIds |-> undefined]

VARIABLES
    winTabs,              \* host: window identity -> its live tabs, in index order
    tabRelationships,     \* storage key tabRelationships: child -> parentTabId
    inactiveWindows,      \* storage key inactiveWindows: the snapshot list
    inactiveWindowsSet,   \* whether the key inactiveWindows was ever written
    removed,              \* onRemoved handlers (relationship part), per tab identity
    created,              \* onCreated handlers, per tab identity
    deact,                \* deactivateWindow calls
    react,                \* reactivateWindow calls
    events,               \* how many user events of each kind have happened
    lastTabId,            \* host: the tab identity handed out last
    lastWindowId,         \* host: the window identity handed out last
    importCall,           \* the importInactiveWindows call
    exportCall,           \* the exportInactiveWindows call
    tabUrl,               \* host: tab identity -> the URL the tab shows
    youtubeQueues,        \* storage key youtubeQueues: cache key -> record
    updated,              \* onUpdated handlers, per tab identity
    removedQueue,         \* onRemoved handlers (queue part), per tab identity
    getTabs               \* the getTabs request

vars == <<winTabs, tabRelationships, inactiveWindows, inactiveWindowsSet,
          removed, created, deact, react, events, lastTabId, lastWindowId,
          importCall, exportCall,
          tabUrl, youtubeQueues, updated, removedQueue, getTabs>>

ioVars == <<importCall, exportCall>>

queueVars == <<tabUrl, youtubeQueues, updated, removedQueue, getTabs>>

\* call slots of the message listener
DeactCalls == {"d1"}
ReactCalls == {"r1"}

LiveTabs == UNION {Range(winTabs[w]) : w \in WinIds}
LiveWins == {w \in WinIds : Len(winTabs[w]) > 0}

\* identities the host may give to a new tab: not live, and the handlers of
\* the previous holder of the identity have finished
FreeTabs == {t \in TabIds : t \notin LiveTabs /\ removed[t].pc = "idle"
                              /\ created[t].pc = "idle"}
FreeWins == WinIds \ LiveWins

\* the host hands out identities in increasing order and starts over at 1
\* when the range is used up, skipping the identities that are not free
SetMin(S) == CHOOSE x \in S : \A y \in S : x <= y
NextFree(last, free) ==
    IF free = {} THEN undefined
    ELSE IF {x \in free : x > last} # {} THEN SetMin({x \in free : x > last})
    ELSE SetMin(free)
NextTabId == NextFree(lastTabId, FreeTabs)
NextWindowId == NextFree(lastWindowId, FreeWins)

\* a call that has returned answers at once: the .then(sendResponse) of
\* the message listener is a microtask, no other handler runs before it
NoneInFlight ==
    /\ \A c \in DeactCalls : deact[c].pc = "idle"
    /\ \A c \in ReactCalls : react[c].pc = "idle"

NoHandlerPending ==
    \A t \in TabIds : removed[t].pc = "idle" /\ created[t].pc = "idle"

NoneReturned ==
    /\ \A c \in DeactCalls : deact[c].pc # "done"
    /\ \A c \in ReactCalls : react[c].pc # "done"

IdleRemoved == [pc |-> "idle", relationships |-> EmptyRelationships]
IdleCreated == [pc |-> "idle", openerTabId |-> undefined,
                relationships |-> EmptyRelationships]

\* the host fires tabs.onRemoved for every tab of ts: each listener call
\* issues its storage.get (popup.css 1363-1367)
FireRemoved(ts) ==
    [t \in TabIds |-> IF t \in ts THEN [pc |-> "get", relationships |-> EmptyRelationships]
                      ELSE removed[t]]

\* ------------------------------------------------ tabs.onCreated listener
\* the user opens a tab in window w from tab opener (undefined: no opener);
\* the listener runs: with an opener it issues storage.get
OpenTab(w, opener) ==
    /\ NoneInFlight
    /\ w \in LiveWins
    /\ NextTabId # undefined
    /\ opener \in LiveTabs \cup {undefined}
    /\ winTabs' = [winTabs EXCEPT ![w] = Append(@, NextTabId)]
    /\ lastTabId' = NextTabId
    /\ created' = IF opener # undefined
                  THEN [created EXCEPT ![NextTabId] =
                           [pc |-> "get", openerTabId |-> opener,
                            relationships |-> EmptyRelationships]]
                  ELSE created
    /\ UNCHANGED <<tabRelationships, inactiveWindows, inactiveWindowsSet,
                   removed, deact, react, lastWindowId>>
    /\ events.opens < MaxOpens
    /\ events' = [events EXCEPT !.opens = @ + 1]
    /\ UNCHANGED ioVars
    /\ UNCHANGED queueVars

\* mutant: the listener writes a map that holds the new entry only
CreatedGet_onlyEntry(t) ==
    /\ NoneReturned
    /\ created[t].pc = "get"
    /\ created' = [created EXCEPT ![t].pc = "set",
                      ![t].relationships =
                          [EmptyRelationships EXCEPT ![t] = created[t].openerTabId]]
    /\ UNCHANGED <<winTabs, tabRelationships, inactiveWindows, inactiveWindowsSet,
                   removed, deact, react>>
    /\ UNCHANGED <<events, lastTabId, lastWindowId>>
    /\ UNCHANGED ioVars
    /\ UNCHANGED queueVars

\* callback of storage.get: add the entry, issue storage.set
CreatedGet(t) ==
    /\ NoneReturned
    /\ created[t].pc = "get"
    /\ created' = [created EXCEPT ![t].pc = "set",
                      ![t].relationships =
                          [tabRelationships EXCEPT ![t] = created[t].openerTabId]]
    /\ UNCHANGED <<winTabs, tabRelationships, inactiveWindows, inactiveWindowsSet,
                   removed, deact, react>>
    /\ UNCHANGED <<events, lastTabId, lastWindowId>>
    /\ UNCHANGED ioVars
    /\ UNCHANGED queueVars

\* storage.set takes effect
CreatedSet(t) ==
    /\ NoneReturned
    /\ created[t].pc = "set"
    /\ tabRelationships' = created[t].relationships
    /\ created' = [created EXCEPT ![t] = IdleCreated]
    /\ UNCHANGED <<winTabs, inactiveWindows, inactiveWindowsSet,
                   removed, deact, react>>
    /\ UNCHANGED <<events, lastTabId, lastWindowId>>
    /\ UNCHANGED ioVars
    /\ UNCHANGED queueVars

\* ------------------------------------------------ tabs.onRemoved listener
\* the user closes tab t; closing the last tab closes the window
CloseTab(t) ==
    /\ NoneInFlight
    /\ t \in LiveTabs
    /\ winTabs' = [w \in WinIds |-> Without(winTabs[w], t)]
    /\ removed' = FireRemoved({t})
    /\ UNCHANGED <<tabRelationships, inactiveWindows, inactiveWindowsSet,
                   created, deact, react>>
    /\ events.closes < MaxCloses
    /\ events' = [events EXCEPT !.closes = @ + 1]
    /\ UNCHANGED <<lastTabId, lastWindowId>>
    /\ UNCHANGED ioVars
    /\ UNCHANGED queueVars

\* mutant: the listener writes the map back whether the tab had an entry or not
RemovedGet_alwaysWrites(t) ==
    /\ NoneReturned
    /\ removed[t].pc = "get"
    /\ removed' = [removed EXCEPT ![t].pc = "set",
                      ![t].relationships =
                          [tabRelationships EXCEPT ![t] = undefined]]
    /\ UNCHANGED <<winTabs, tabRelationships, inactiveWindows, inactiveWindowsSet,
                   created, deact, react>>
    /\ UNCHANGED <<events, lastTabId, lastWindowId>>
    /\ UNCHANGED ioVars
    /\ UNCHANGED queueVars

\* mutant: the listener forgets nothing
RemovedGet_keepsEntry(t) ==
    /\ NoneReturned
    /\ removed[t].pc = "get"
    /\ removed' = [removed EXCEPT ![t] = IdleRemoved]
    /\ UNCHANGED <<winTabs, tabRelationships, inactiveWindows, inactiveWindowsSet,
                   created, deact, react>>
    /\ UNCHANGED <<events, lastTabId, lastWindowId>>
    /\ UNCHANGED ioVars
    /\ UNCHANGED queueVars

\* callback of storage.get: with an entry for the tab, delete it and issue
\* storage.set; without one the handler ends
RemovedGet(t) ==
    /\ NoneReturned
    /\ removed[t].pc = "get"
    /\ removed' = IF tabRelationships[t] # undefined
                  THEN [removed EXCEPT ![t].pc = "set",
                           ![t].relationships =
                               [tabRelationships EXCEPT ![t] = undefined]]
                  ELSE [removed EXCEPT ![t] = IdleRemoved]
    /\ UNCHANGED <<winTabs, tabRelationships, inactiveWindows, inactiveWindowsSet,
                   created, deact, react>>
    /\ UNCHANGED <<events, lastTabId, lastWindowId>>
    /\ UNCHANGED ioVars
    /\ UNCHANGED queueVars

RemovedSet(t) ==
    /\ NoneReturned
    /\ removed[t].pc = "set"
    /\ tabRelationships' = removed[t].relationships
    /\ removed' = [removed EXCEPT ![t] = IdleRemoved]
    /\ UNCHANGED <<winTabs, inactiveWindows, inactiveWindowsSet,
                   created, deact, react>>
    /\ UNCHANGED <<events, lastTabId, lastWindowId>>
    /\ UNCHANGED ioVars
    /\ UNCHANGED queueVars

\* ---------------------------------------------------------- deactivateWindow
NoWindowData == [id |-> undefined, tabs |-> <<>>]

IdleDeact == [pc |-> "idle", windowId |-> undefined, tabs |-> <<>>,
              windowData |-> NoWindowData, inactiveWindows |-> <<>>,
              allInactiveWindows |-> <<>>, failed |-> {}, wrote |-> FALSE,
              removeIssued |-> FALSE, result |-> FALSE]

\* what tabs.query({windowId}) reports for the tabs ids, the first k pinned
QueriedTabs(ids, k) ==
    [i \in 1..Len(ids) |-> [id |-> ids[i], index |-> i - 1, pinned |-> (i <= k)]]

\* mutant: the parent lookup is left out
TabSnapshotOf_noParent(tab, relationships) ==
    [originalId |-> tab.id, index |-> tab.index, pinned |-> tab.pinned,
     parentTabId |-> undefined]

\* tabs.map(...) of lines 1737-1747: one TabSnapshot per enumerated tab
TabSnapshotOf(tab, relationships) ==
    [originalId |-> tab.id, index |-> tab.index, pinned |-> tab.pinned,
     parentTabId |-> relationships[tab.id]]

\* Date.now() where deactivateWindow reads it (line 1735), on a logical
\* clock: the snapshots of earlier sessions have the times 0 and 1, and the
\* clock of this session has moved on by one at each capture request
DateNow == 1 + events.captures

WindowDataOf(windowId, tabs, relationships) ==
    [id |-> windowId,
     deactivatedAt |-> DateNow,
     tabs |-> [i \in 1..Len(tabs) |-> TabSnapshotOf(tabs[i], relationships)]]

\* a return of deactivateWindow (lines 1725, 1764): the call ends
DeactReturn(c, success) ==
    deact' = [deact EXCEPT ![c].pc = "done", ![c].result = success]

\* the catch block of deactivateWindow (lines 1765-1768) after host call op
\* failed
DeactCatch(c, op) ==
    deact' = [deact EXCEPT ![c].pc = "done", ![c].result = FALSE,
                           ![c].failed = @ \cup {op}]

\* the message arrives; deactivateWindow runs up to its first await
DeactivateStart(c, windowId) ==
    /\ NoneReturned
    /\ NoHandlerPending
    /\ deact[c].pc = "idle"
    /\ deact' = [deact EXCEPT ![c] = [IdleDeact EXCEPT !.pc = "query",
                                                       !.windowId = windowId]]
    /\ UNCHANGED <<winTabs, tabRelationships, inactiveWindows, inactiveWindowsSet,
                   removed, created, react>>
    /\ events.captures < MaxCaptures
    /\ events' = [events EXCEPT !.captures = @ + 1]
    /\ UNCHANGED <<lastTabId, lastWindowId>>
    /\ UNCHANGED ioVars
    /\ UNCHANGED queueVars

\* mutant: the test for an empty tab list is left out
DeactQuery_noEmptyCheck(c) ==
    /\ NoneReturned
    /\ deact[c].pc = "query"
    /\ deact' = [deact EXCEPT ![c].pc = "getRelationships",
                              ![c].tabs = QueriedTabs(winTabs[deact[c].windowId], 0)]
    /\ UNCHANGED <<winTabs, tabRelationships, inactiveWindows, inactiveWindowsSet,
                   removed, created, react>>
    /\ UNCHANGED <<events, lastTabId, lastWindowId>>
    /\ UNCHANGED ioVars
    /\ UNCHANGED queueVars

\* await chrome.tabs.query({ windowId }), then lines 1723-1729
DeactQuery(c) ==
    /\ NoneReturned
    /\ deact[c].pc = "query"
    /\ \E ok \in BOOLEAN, k \in 0..MaxPinned :
         IF ~ok
         THEN DeactCatch(c, "query")
         ELSE LET tabs == QueriedTabs(winTabs[deact[c].windowId],
                                      Min(k, Len(winTabs[deact[c].windowId])))
              IN  IF Len(tabs) = 0
                  THEN DeactReturn(c, FALSE)
                  ELSE deact' = [deact EXCEPT ![c].pc = "getRelationships",
                                              ![c].tabs = tabs]
    /\ UNCHANGED <<winTabs, tabRelationships, inactiveWindows, inactiveWindowsSet,
                   removed, created, react>>
    /\ UNCHANGED <<events, lastTabId, lastWindowId>>
    /\ UNCHANGED ioVars
    /\ UNCHANGED queueVars

\* await storage.get(['tabRelationships']), then lines 1730-1751
DeactGetRelationships(c) ==
    /\ NoneReturned
    /\ deact[c].pc = "getRelationships"
    /\ \E ok \in BOOLEAN :
         IF ~ok
         THEN DeactCatch(c, "getRelationships")
         ELSE deact' = [deact EXCEPT ![c].pc = "getInactive",
                  ![c].windowData =
                      WindowDataOf(deact[c].windowId, deact[c].tabs, tabRelationships)]
    /\ UNCHANGED <<winTabs, tabRelationships, inactiveWindows, inactiveWindowsSet,
                   removed, created, react>>
    /\ UNCHANGED <<events, lastTabId, lastWindowId>>
    /\ UNCHANGED ioVars
    /\ UNCHANGED queueVars

\* mutant: the window is removed before the list is saved
DeactGetInactive_removeFirst(c) ==
    /\ NoneReturned
    /\ deact[c].pc = "getInactive"
    /\ deact' = [deact EXCEPT ![c].pc = "remove", ![c].removeIssued = TRUE,
             ![c].inactiveWindows = inactiveWindows,
             ![c].allInactiveWindows = Unshift(inactiveWindows, deact[c].windowData)]
    /\ UNCHANGED <<winTabs, tabRelationships, inactiveWindows, inactiveWindowsSet,
                   removed, created, react>>
    /\ UNCHANGED <<events, lastTabId, lastWindowId>>
    /\ UNCHANGED ioVars
    /\ UNCHANGED queueVars

\* await storage.get(['inactiveWindows']), then lines 1752-1758
DeactGetInactive(c) ==
    /\ NoneReturned
    /\ deact[c].pc = "getInactive"
    /\ \E ok \in BOOLEAN :
         IF ~ok
         THEN DeactCatch(c, "getInactive")
         ELSE deact' = [deact EXCEPT ![c].pc = "setInactive",
                  ![c].inactiveWindows = inactiveWindows,
                  ![c].allInactiveWindows = Unshift(inactiveWindows, deact[c].windowData)]
    /\ UNCHANGED <<winTabs, tabRelationships, inactiveWindows, inactiveWindowsSet,
                   removed, created, react>>
    /\ UNCHANGED <<events, lastTabId, lastWindowId>>
    /\ UNCHANGED ioVars
    /\ UNCHANGED queueVars

\* mutant: the save puts the snapshot in front of the list stored now
DeactSetInactive_rereads(c) ==
    /\ NoneReturned
    /\ deact[c].pc = "setInactive"
    /\ inactiveWindows' = Unshift(inactiveWindows, deact[c].windowData)
    /\ inactiveWindowsSet' = TRUE
    /\ deact' = [deact EXCEPT ![c].pc = "remove", ![c].wrote = TRUE,
                              ![c].removeIssued = TRUE]
    /\ UNCHANGED <<winTabs, tabRelationships, removed, created, react>>
    /\ UNCHANGED <<events, lastTabId, lastWindowId>>
    /\ UNCHANGED ioVars
    /\ UNCHANGED queueVars

\* mutant: a failed save is not noticed
DeactSetInactive_ignoreFailure(c) ==
    /\ NoneReturned
    /\ deact[c].pc = "setInactive"
    /\ deact' = [deact EXCEPT ![c].pc = "remove", ![c].removeIssued = TRUE,
                              ![c].failed = @ \cup {"setInactive"}]
    /\ UNCHANGED <<winTabs, tabRelationships, inactiveWindows, inactiveWindowsSet,
                   removed, created, react>>
    /\ UNCHANGED <<events, lastTabId, lastWindowId>>
    /\ UNCHANGED ioVars
    /\ UNCHANGED queueVars

\* await storage.set({ inactiveWindows }), then line 1761 issues windows.remove
DeactSetInactive(c) ==
    /\ NoneReturned
    /\ deact[c].pc = "setInactive"
    /\ \E ok \in BOOLEAN :
         IF ~ok
         THEN /\ DeactCatch(c, "setInactive")
              /\ UNCHANGED <<inactiveWindows, inactiveWindowsSet>>
         ELSE /\ inactiveWindows' = deact[c].allInactiveWindows
              /\ inactiveWindowsSet' = TRUE
              /\ deact' = [deact EXCEPT ![c].pc = "remove", ![c].wrote = TRUE,
                                        ![c].removeIssued = TRUE]
    /\ UNCHANGED <<winTabs, tabRelationships, removed, created, react>>
    /\ UNCHANGED <<events, lastTabId, lastWindowId>>
    /\ UNCHANGED ioVars
    /\ UNCHANGED queueVars

\* await chrome.windows.remove(windowId), then lines 1763-1764; the host
\* rejects when the window is gone; closing the window removes its tabs
DeactRemove(c) ==
    /\ NoneReturned
    /\ deact[c].pc = "remove"
    /\ \E ok \in BOOLEAN :
         IF ~ok \/ deact[c].windowId \notin LiveWins
         THEN /\ DeactCatch(c, "remove")
              /\ UNCHANGED <<winTabs, removed>>
         ELSE /\ winTabs' = [winTabs EXCEPT ![deact[c].windowId] = <<>>]
              /\ removed' = FireRemoved(Range(winTabs[deact[c].windowId]))
              /\ DeactReturn(c, TRUE)
    /\ UNCHANGED <<tabRelationships, inactiveWindows, inactiveWindowsSet,
                   created, react>>
    /\ UNCHANGED <<events, lastTabId, lastWindowId>>
    /\ UNCHANGED ioVars
    /\ UNCHANGED queueVars

\* sendResponse({ success }) of the message listener (lines 1963-1971)
DeactRespond(c) ==
    /\ deact[c].pc = "done"
    /\ deact' = [deact EXCEPT ![c] = IdleDeact]
    /\ UNCHANGED <<winTabs, tabRelationships, inactiveWindows, inactiveWindowsSet,
                   removed, created, react>>
    /\ UNCHANGED <<events, lastTabId, lastWindowId>>
    /\ UNCHANGED ioVars
    /\ UNCHANGED queueVars

\* ---------------------------------------------------------- reactivateWindow
NoTabSnapshot == [originalId |-> undefined, index |-> 0, pinned |-> FALSE,
                  parentTabId |-> undefined]

\* stored: the list as storage.get returned it, before the splice;
\* failed: the host calls of this call that failed; created: the tabs the
\* call created; tabRelationships: what restoreTabRelationships read;
\* the other fields are the locals of lines 1778-1891
IdleReact == [pc |-> "idle", inactiveWindowIndex |-> 0, inactiveWindows |-> <<>>,
              stored |-> <<>>,
              windowData |-> NoWindowData, newWindowId |-> undefined,
              initialTabId |-> undefined, i |-> 0,
              tabIdMapping |-> EmptyMapping, tabRelationships |-> EmptyRelationships,
              relationships |-> EmptyRelationships,
              created |-> {}, failed |-> {}, remapped |-> FALSE,
              wroteRelationships |-> FALSE, wrote |-> FALSE, result |-> FALSE]

\* windowData.tabs[0] || { url: 'about:blank' }  (line 1793)
FirstTab(windowData) ==
    IF Len(windowData.tabs) > 0 THEN windowData.tabs[1] ELSE NoTabSnapshot

\* the loop of restoreTabRelationships (lines 1871-1884), from tab k on
RECURSIVE RemapFrom(_, _, _, _)
RemapFrom(relationships, originalTabs, tabIdMapping, k) ==
    IF k > Len(originalTabs)
    THEN relationships
    ELSE LET tab == originalTabs[k]
             newTabId == IF tab.originalId # undefined
                         THEN tabIdMapping[tab.originalId] ELSE undefined
             newParentId == IF tab.parentTabId # undefined
                            THEN tabIdMapping[tab.parentTabId] ELSE undefined
             next == IF /\ tab.parentTabId # undefined
                        /\ tab.originalId # undefined
                        /\ newTabId # undefined
                        /\ newParentId # undefined
                     THEN [relationships EXCEPT ![newTabId] = newParentId]
                     ELSE relationships
         IN  RemapFrom(next, originalTabs, tabIdMapping, k + 1)

\* mutant: the edges are recorded between the identities of the snapshot
Remap_oldIds(relationships, originalTabs, tabIdMapping) ==
    RemapFrom(relationships, originalTabs, [t \in TabIds |-> t], 1)

\* mutant: the loop stops before the last tab
Remap_dropLast(relationships, originalTabs, tabIdMapping) ==
    RemapFrom(relationships, SubSeq(originalTabs, 1, Len(originalTabs) - 1),
              tabIdMapping, 1)

\* restoreTabRelationships, lines 1869-1887: the edges of the snapshot in new identities
Remap(relationships, originalTabs, tabIdMapping) ==
    RemapFrom(relationships, originalTabs, tabIdMapping, 1)

ReactReturn(c, success) ==
    react' = [react EXCEPT ![c].pc = "done", ![c].result = success]

\* the catch block of reactivateWindow (lines 1851-1854) after host call op failed
ReactCatch(c, op) ==
    react' = [react EXCEPT ![c].pc = "done", ![c].result = FALSE,
                           ![c].failed = @ \cup {op}]

\* lines 1830-1843, run once the loop is over: the next host call is
\* tabs.update for a pinned first tab, else the storage.get of
\* restoreTabRelationships
AfterLoop(call) ==
    LET firstTab == FirstTab(call.windowData)
    IN  IF call.initialTabId # undefined /\ firstTab.originalId # undefined
        THEN IF firstTab.pinned
             THEN [call EXCEPT !.pc = "updatePinned"]
             ELSE [call EXCEPT !.pc = "getRelationships",
                               !.tabIdMapping[firstTab.originalId] = call.initialTabId]
        ELSE [call EXCEPT !.pc = "getRelationships"]

\* lines 1845-1847, run when restoreTabRelationships has returned
AfterRestore(call) ==
    [call EXCEPT !.pc = "setInactive",
                 !.inactiveWindows = Splice(call.inactiveWindows,
                                            call.inactiveWindowIndex)]

\* the message arrives; reactivateWindow runs up to its first await
ReactivateStart(c, inactiveWindowIndex) ==
    /\ NoneReturned
    /\ NoHandlerPending
    /\ react[c].pc = "idle"
    /\ react' = [react EXCEPT ![c] = [IdleReact EXCEPT !.pc = "getInactive",
                                  !.inactiveWindowIndex = inactiveWindowIndex]]
    /\ UNCHANGED <<winTabs, tabRelationships, inactiveWindows, inactiveWindowsSet,
                   removed, created, deact>>
    /\ events.restores < MaxRestores
    /\ events' = [events EXCEPT !.restores = @ + 1]
    /\ UNCHANGED <<lastTabId, lastWindowId>>
    /\ UNCHANGED ioVars
    /\ UNCHANGED queueVars

\* mutant: the index is not tested before the window is created
ReactGetInactive_noRangeCheck(c) ==
    /\ NoneReturned
    /\ react[c].pc = "getInactive"
    /\ react' = [react EXCEPT ![c].pc = "createWindow",
             ![c].inactiveWindows = inactiveWindows,
             ![c].stored = inactiveWindows,
             ![c].windowData =
                 IF react[c].inactiveWindowIndex + 1 \in DOMAIN inactiveWindows
                 THEN inactiveWindows[react[c].inactiveWindowIndex + 1]
                 ELSE NoWindowData]
    /\ UNCHANGED <<winTabs, tabRelationships, inactiveWindows, inactiveWindowsSet,
                   removed, created, deact>>
    /\ UNCHANGED <<events, lastTabId, lastWindowId>>
    /\ UNCHANGED ioVars
    /\ UNCHANGED queueVars

\* await storage.get(['inactiveWindows']), then lines 1785-1797
ReactGetInactive(c) ==
    /\ NoneReturned
    /\ react[c].pc = "getInactive"
    /\ \E ok \in BOOLEAN :
         IF ~ok
         THEN ReactCatch(c, "getInactive")
         ELSE IF \/ ~inactiveWindowsSet
                 \/ react[c].inactiveWindowIndex + 1 \notin DOMAIN inactiveWindows
              THEN ReactReturn(c, FALSE)
              ELSE react' = [react EXCEPT ![c].pc = "createWindow",
                       ![c].inactiveWindows = inactiveWindows,
                       ![c].stored = inactiveWindows,
                       ![c].windowData =
                           inactiveWindows[react[c].inactiveWindowIndex + 1]]
    /\ UNCHANGED <<winTabs, tabRelationships, inactiveWindows, inactiveWindowsSet,
                   removed, created, deact>>
    /\ UNCHANGED <<events, lastTabId, lastWindowId>>
    /\ UNCHANGED ioVars
    /\ UNCHANGED queueVars

\* mutant: a failed windows.create does not end the call, the snapshot is
\* removed all the same
ReactCreateWindow_removeOnFail(c) ==
    /\ NoneReturned
    /\ react[c].pc = "createWindow"
    /\ react' = [react EXCEPT ![c] =
            AfterRestore([react[c] EXCEPT !.failed = @ \cup {"createWindow"}])]
    /\ UNCHANGED <<winTabs, tabRelationships, inactiveWindows, inactiveWindowsSet,
                   removed, created, deact>>
    /\ UNCHANGED <<events, lastTabId, lastWindowId>>
    /\ UNCHANGED ioVars
    /\ UNCHANGED queueVars

\* await chrome.windows.create(...), then lines 1799-1805.  The host either
\* rejects, or resolves without a window, or opens window w with one tab t
ReactCreateWindow(c) ==
    /\ NoneReturned
    /\ react[c].pc = "createWindow"
    /\ \/ /\ ReactCatch(c, "createWindow")
          /\ UNCHANGED <<winTabs, lastTabId, lastWindowId>>
       \/ /\ react' = [react EXCEPT ![c].pc = "done", ![c].result = FALSE,
                                    ![c].failed = @ \cup {"createWindow"}]
          /\ UNCHANGED <<winTabs, lastTabId, lastWindowId>>
       \/ /\ NextWindowId # undefined /\ NextTabId # undefined
          /\ winTabs' = [winTabs EXCEPT ![NextWindowId] = <<NextTabId>>]
          /\ lastTabId' = NextTabId
          /\ lastWindowId' = NextWindowId
          /\ react' = [react EXCEPT ![c].pc = "queryInitial",
                                    ![c].newWindowId = NextWindowId,
                                    ![c].created = @ \cup {NextTabId}]
    /\ UNCHANGED <<tabRelationships, inactiveWindows, inactiveWindowsSet,
                   removed, created, deact>>
    /\ UNCHANGED events
    /\ UNCHANGED ioVars
    /\ UNCHANGED queueVars

\* await chrome.tabs.query({ windowId: newWindow.id }), then lines 1806-1821
\* (or 1830-1843 when the snapshot has a single tab)
ReactQueryInitial(c) ==
    /\ NoneReturned
    /\ react[c].pc = "queryInitial"
    /\ \E ok \in BOOLEAN :
         IF ~ok
         THEN ReactCatch(c, "queryInitial")
         ELSE LET initialTabs == winTabs[react[c].newWindowId]
                  call == [react[c] EXCEPT
                              !.initialTabId = IF Len(initialTabs) > 0
                                               THEN initialTabs[1] ELSE undefined,
                              !.i = 1]
              IN  react' = [react EXCEPT ![c] =
                              IF Len(call.windowData.tabs) > 1
                              THEN [call EXCEPT !.pc = "createTab"]
                              ELSE AfterLoop(call)]
    /\ UNCHANGED <<winTabs, tabRelationships, inactiveWindows, inactiveWindowsSet,
                   removed, created, deact>>
    /\ UNCHANGED <<events, lastTabId, lastWindowId>>
    /\ UNCHANGED ioVars
    /\ UNCHANGED queueVars

\* the loop test and what follows the loop (lines 1813, 1830-1843)
NextTab(call) ==
    IF call.i < Len(call.windowData.tabs)
    THEN [call EXCEPT !.pc = "createTab"]
    ELSE AfterLoop(call)

\* await chrome.tabs.create(...) for tabs[i], then lines 1823-1827 and the
\* next iteration.  The host either rejects (always when the window is
\* gone), or resolves with a tab that has no id, or creates tab t
ReactCreateTab(c) ==
    /\ NoneReturned
    /\ react[c].pc = "createTab"
    /\ LET tabData == react[c].windowData.tabs[react[c].i + 1]
       IN  \/ /\ ReactCatch(c, "createTab")
              /\ UNCHANGED <<winTabs, lastTabId>>
           \/ /\ react' = [react EXCEPT ![c] =
                    NextTab([react[c] EXCEPT !.i = @ + 1,
                                             !.failed = @ \cup {"createTab"}])]
              /\ UNCHANGED <<winTabs, lastTabId>>
           \/ /\ react[c].newWindowId \in LiveWins
              /\ NextTabId # undefined
              /\ winTabs' = [winTabs EXCEPT ![react[c].newWindowId] =
                                 InsertAt(@, tabData.index, NextTabId)]
              /\ lastTabId' = NextTabId
              /\ react' = [react EXCEPT ![c] =
                   NextTab([react[c] EXCEPT
                       !.i = @ + 1,
                       !.created = @ \cup {NextTabId},
                       !.tabIdMapping =
                           IF tabData.originalId # undefined
                           THEN [@ EXCEPT ![tabData.originalId] = NextTabId]
                           ELSE @])]
    /\ UNCHANGED <<tabRelationships, inactiveWindows, inactiveWindowsSet,
                   removed, created, deact>>
    /\ UNCHANGED <<events, lastWindowId>>
    /\ UNCHANGED ioVars
    /\ UNCHANGED queueVars

\* await chrome.tabs.update(initialTabId, { pinned: true }), then line 1839
\* and the call of restoreTabRelationships; the host rejects when the tab
\* is gone
ReactUpdatePinned(c) ==
    /\ NoneReturned
    /\ react[c].pc = "updatePinned"
    /\ \E ok \in BOOLEAN :
         IF ~ok \/ react[c].initialTabId \notin LiveTabs
         THEN ReactCatch(c, "updatePinned")
         ELSE react' = [react EXCEPT ![c].pc = "getRelationships",
                  ![c].tabIdMapping[FirstTab(react[c].windowData).originalId] =
                      react[c].initialTabId]
    /\ UNCHANGED <<winTabs, tabRelationships, inactiveWindows, inactiveWindowsSet,
                   removed, created, deact>>
    /\ UNCHANGED <<events, lastTabId, lastWindowId>>
    /\ UNCHANGED ioVars
    /\ UNCHANGED queueVars

\* restoreTabRelationships: await storage.get(['tabRelationships']), then
\* lines 1868-1887; a failure is caught at line 1888 and the caller goes on
ReactGetRelationships(c) ==
    /\ NoneReturned
    /\ react[c].pc = "getRelationships"
    /\ \E ok \in BOOLEAN :
         IF ~ok
         THEN react' = [react EXCEPT ![c] =
                  AfterRestore([react[c] EXCEPT !.failed = @ \cup {"getRelationships"}])]
         ELSE react' = [react EXCEPT ![c].pc = "setRelationships",
                  ![c].remapped = TRUE,
                  ![c].tabRelationships = tabRelationships,
                  ![c].relationships =
                      Remap(tabRelationships, react[c].windowData.tabs,
                            react[c].tabIdMapping)]
    /\ UNCHANGED <<winTabs, tabRelationships, inactiveWindows, inactiveWindowsSet,
                   removed, created, deact>>
    /\ UNCHANGED <<events, lastTabId, lastWindowId>>
    /\ UNCHANGED ioVars
    /\ UNCHANGED queueVars

\* mutant: a failed write of the relationships ends the restore
ReactSetRelationships_aborts(c) ==
    /\ NoneReturned
    /\ react[c].pc = "setRelationships"
    /\ \E ok \in BOOLEAN :
         IF ~ok
         THEN /\ ReactCatch(c, "setRelationships")
              /\ UNCHANGED tabRelationships
         ELSE /\ tabRelationships' = react[c].relationships
              /\ react' = [react EXCEPT ![c] =
                    AfterRestore([react[c] EXCEPT !.wroteRelationships = TRUE])]
    /\ UNCHANGED <<winTabs, inactiveWindows, inactiveWindowsSet,
                   removed, created, deact>>
    /\ UNCHANGED <<events, lastTabId, lastWindowId>>
    /\ UNCHANGED ioVars
    /\ UNCHANGED queueVars

\* restoreTabRelationships: await storage.set({ tabRelationships }), then
\* back in reactivateWindow lines 1845-1847
ReactSetRelationships(c) ==
    /\ NoneReturned
    /\ react[c].pc = "setRelationships"
    /\ \E ok \in BOOLEAN :
         IF ~ok
         THEN /\ react' = [react EXCEPT ![c] =
                    AfterRestore([react[c] EXCEPT !.failed = @ \cup {"setRelationships"}])]
              /\ UNCHANGED tabRelationships
         ELSE /\ tabRelationships' = react[c].relationships
              /\ react' = [react EXCEPT ![c] =
                    AfterRestore([react[c] EXCEPT !.wroteRelationships = TRUE])]
    /\ UNCHANGED <<winTabs, inactiveWindows, inactiveWindowsSet,
                   removed, created, deact>>
    /\ UNCHANGED <<events, lastTabId, lastWindowId>>
    /\ UNCHANGED ioVars
    /\ UNCHANGED queueVars

\* await storage.set({ inactiveWindows }), then lines 1849-1850
ReactSetInactive(c) ==
    /\ NoneReturned
    /\ react[c].pc = "setInactive"
    /\ \E ok \in BOOLEAN :
         IF ~ok
         THEN /\ ReactCatch(c, "setInactive")
              /\ UNCHANGED <<inactiveWindows, inactiveWindowsSet>>
         ELSE /\ inactiveWindows' = react[c].inactiveWindows
              /\ inactiveWindowsSet' = TRUE
              /\ react' = [react EXCEPT ![c].pc = "done", ![c].result = TRUE,
                                        ![c].wrote = TRUE]
    /\ UNCHANGED <<winTabs, tabRelationships, removed, created, deact>>
    /\ UNCHANGED <<events, lastTabId, lastWindowId>>
    /\ UNCHANGED ioVars
    /\ UNCHANGED queueVars

\* sendResponse({ success }) of the message listener (lines 1973-1981)
ReactRespond(c) ==
    /\ react[c].pc = "done"
    /\ react' = [react EXCEPT ![c] = IdleReact]
    /\ UNCHANGED <<winTabs, tabRelationships, inactiveWindows, inactiveWindowsSet,
                   removed, created, deact>>
    /\ UNCHANGED <<events, lastTabId, lastWindowId>>
    /\ UNCHANGED ioVars
    /\ UNCHANGED queueVars

\* ------------------------------------------------ JSON texts and values
\* A string handed to importInactiveWindows is empty, is no JSON text, or is
\* a JSON text, given by the value it denotes.  Of a JSON value the model
\* keeps what the code looks at: whether it is null, a string, a number, an
\* array (with its items) or an object (with its properties).  An item of
\* the inactiveWindows array is a function from its property names.
EmptyText == [kind |-> "empty"]
NotJSON == [kind |-> "garbage"]
JSONtext(value) == [kind |-> "json", value |-> value]

JsonNull == [type |-> "null"]
JsonString == [type |-> "string"]
JsonNumber == [type |-> "number"]
JsonArray(items) == [type |-> "array", items |-> items]
JsonObject(props) == [type |-> "object", props |-> props]

\* o[k] in JavaScript: undefined for a property that is not there
Prop(o, k) == IF k \in DOMAIN o THEN o[k] ELSE undefined

\* mutant: the parent of a tab is not written
TabJSON_noParent(tab) ==
    [k \in {x \in DOMAIN tab : x # "parentTabId"} |-> tab[k]]

\* what JSON.stringify writes for a TabSnapshot: a property whose value is
\* undefined is left out
TabJSON(tab) ==
    [k \in {x \in DOMAIN tab : x \in {"index", "pinned"} \/ tab[x] # undefined}
        |-> tab[k]]

\* what JSON.stringify writes for a window record
WindowJSON(w) ==
    [k \in DOMAIN w |->
        IF k = "tabs" THEN [i \in DOMAIN w[k] |-> TabJSON(w[k][i])] ELSE w[k]]

\* the record the storage holds for a parsed tab and a parsed window
TabRecord(o) ==
    [originalId |-> Prop(o, "originalId"), index |-> Prop(o, "index"),
     pinned |-> Prop(o, "pinned"), parentTabId |-> Prop(o, "parentTabId")]
WindowRecord(o) ==
    [k \in DOMAIN o |->
        IF k = "tabs" THEN [i \in DOMAIN o[k] |-> TabRecord(o[k][i])] ELSE o[k]]

\* JSON.stringify of an object whose inactiveWindows property is a list of
\* window records (lines 1903, 1906-1910)
JSONstringify(obj) ==
    JSONtext(JsonObject(
        [k \in DOMAIN obj |->
            IF k = "inactiveWindows"
            THEN JsonArray([i \in DOMAIN obj[k] |-> WindowJSON(obj[k][i])])
            ELSE obj[k]]))

\* ------------------------------------------------ exportInactiveWindows
\* mutant: the short document is returned for every store
ExportDocument_short(isSet, list) ==
    JSONstringify([inactiveWindows |-> <<>>])

\* lines 1902-1910: the document for the value storage.get returned
ExportDocument(isSet, list) ==
    IF ~isSet
    THEN JSONstringify([inactiveWindows |-> <<>>])
    ELSE JSONstringify([inactiveWindows |-> list, exportedAt |-> JsonNumber,
                        version |-> JsonString])

IdleExport == [pc |-> "idle", data |-> EmptyText, read |-> <<>>, success |-> FALSE]

IoNoneReturned == importCall.pc # "done" /\ exportCall.pc # "done"

\* the message arrives; exportInactiveWindows runs up to its await
ExportStart ==
    /\ IoNoneReturned
    /\ exportCall.pc = "idle"
    /\ events.exports < MaxExports
    /\ events' = [events EXCEPT !.exports = @ + 1]
    /\ exportCall' = [IdleExport EXCEPT !.pc = "get"]
    /\ UNCHANGED <<winTabs, tabRelationships, inactiveWindows, inactiveWindowsSet,
                   removed, created, deact, react, lastTabId, lastWindowId,
                   importCall>>
    /\ UNCHANGED queueVars

\* await storage.get(['inactiveWindows']), then lines 1902-1914; a rejection
\* is rethrown and the listener answers success false (lines 1995-1998)
ExportGet ==
    /\ IoNoneReturned
    /\ exportCall.pc = "get"
    /\ \E ok \in BOOLEAN :
         exportCall' =
             IF ok
             THEN [exportCall EXCEPT !.pc = "done", !.success = TRUE,
                      !.read = inactiveWindows,
                      !.data = ExportDocument(inactiveWindowsSet, inactiveWindows)]
             ELSE [exportCall EXCEPT !.pc = "done", !.success = FALSE]
    /\ UNCHANGED <<winTabs, tabRelationships, inactiveWindows, inactiveWindowsSet,
                   removed, created, deact, react, events, lastTabId, lastWindowId,
                   importCall>>
    /\ UNCHANGED queueVars

\* sendResponse of the message listener (lines 1992-2000)
ExportRespond ==
    /\ exportCall.pc = "done"
    /\ exportCall' = IdleExport
    /\ UNCHANGED <<winTabs, tabRelationships, inactiveWindows, inactiveWindowsSet,
                   removed, created, deact, react, events, lastTabId, lastWindowId,
                   importCall>>
    /\ UNCHANGED queueVars

\* ------------------------------------------------ importInactiveWindows
NoResult == [success |-> FALSE, message |-> "", count |-> 0]

\* items: data.inactiveWindows; failed: the storage calls that failed
IdleImport == [pc |-> "idle", jsonData |-> EmptyText, items |-> <<>>,
               currentWindows |-> <<>>, updatedWindows |-> <<>>,
               failed |-> {}, wrote |-> FALSE, result |-> NoResult]

\* the catch block of importInactiveWindows (lines 1951-1958)
ImportCatch(call) ==
    [call EXCEPT !.pc = "done",
                 !.result = [success |-> FALSE, message |-> "Error importing data",
                             count |-> 0]]

\* data.inactiveWindows of the parsed document (line 1932)
InactiveWindowsOf(data) ==
    IF data.type = "object" /\ "inactiveWindows" \in DOMAIN data.props
    THEN data.props["inactiveWindows"]
    ELSE [type |-> "undefined"]

\* mutant: the shape of the document is not tested
ImportStart_noShapeTest(jsonData) ==
    /\ IoNoneReturned
    /\ importCall.pc = "idle"
    /\ events.imports < MaxImports
    /\ events' = [events EXCEPT !.imports = @ + 1]
    /\ importCall' = [IdleImport EXCEPT !.pc = "get", !.jsonData = jsonData]
    /\ UNCHANGED <<winTabs, tabRelationships, inactiveWindows, inactiveWindowsSet,
                   removed, created, deact, react, lastTabId, lastWindowId,
                   exportCall>>
    /\ UNCHANGED queueVars

\* the message arrives; importInactiveWindows runs lines 1924-1937, up to
\* its first await
ImportStart(jsonData) ==
    /\ IoNoneReturned
    /\ importCall.pc = "idle"
    /\ events.imports < MaxImports
    /\ events' = [events EXCEPT !.imports = @ + 1]
    /\ LET call == [IdleImport EXCEPT !.jsonData = jsonData]
       IN  importCall' =
             IF jsonData.kind = "empty"
             THEN [call EXCEPT !.pc = "done",
                      !.result = [success |-> FALSE, message |-> "No data provided",
                                  count |-> 0]]
             ELSE IF jsonData.kind # "json"
             THEN ImportCatch(call)
             ELSE IF jsonData.value.type = "null"
             THEN ImportCatch(call)
             ELSE IF InactiveWindowsOf(jsonData.value).type # "array"
             THEN [call EXCEPT !.pc = "done",
                      !.result = [success |-> FALSE, message |-> "Invalid data format",
                                  count |-> 0]]
             ELSE [call EXCEPT !.pc = "get",
                      !.items = InactiveWindowsOf(jsonData.value).items]
    /\ UNCHANGED <<winTabs, tabRelationships, inactiveWindows, inactiveWindowsSet,
                   removed, created, deact, react, lastTabId, lastWindowId,
                   exportCall>>
    /\ UNCHANGED queueVars

\* mutant: the imported windows replace the list
ImportGet_replace ==
    /\ IoNoneReturned
    /\ importCall.pc = "get"
    /\ importCall' = [importCall EXCEPT !.pc = "set",
            !.currentWindows = IF inactiveWindowsSet THEN inactiveWindows ELSE <<>>,
            !.updatedWindows =
                [i \in DOMAIN importCall.items |-> WindowRecord(importCall.items[i])]]
    /\ UNCHANGED <<winTabs, tabRelationships, inactiveWindows, inactiveWindowsSet,
                   removed, created, deact, react, events, lastTabId, lastWindowId,
                   exportCall>>
    /\ UNCHANGED queueVars

\* await storage.get(['inactiveWindows']), then lines 1938-1944
ImportGet ==
    /\ IoNoneReturned
    /\ importCall.pc = "get"
    /\ \E ok \in BOOLEAN :
         importCall' =
            IF ok
            THEN LET currentWindows ==
                         IF inactiveWindowsSet THEN inactiveWindows ELSE <<>>
                 IN  [importCall EXCEPT !.pc = "set",
                        !.currentWindows = currentWindows,
                        !.updatedWindows = currentWindows \o
                            [i \in DOMAIN importCall.items |->
                                WindowRecord(importCall.items[i])]]
            ELSE ImportCatch([importCall EXCEPT !.failed = @ \cup {"get"}])
    /\ UNCHANGED <<winTabs, tabRelationships, inactiveWindows, inactiveWindowsSet,
                   removed, created, deact, react, events, lastTabId, lastWindowId,
                   exportCall>>
    /\ UNCHANGED queueVars

\* await storage.set({inactiveWindows: updatedWindows}), then lines 1946-1950
ImportSet ==
    /\ IoNoneReturned
    /\ importCall.pc = "set"
    /\ \E ok \in BOOLEAN :
         IF ok
         THEN /\ inactiveWindows' = importCall.updatedWindows
              /\ inactiveWindowsSet' = TRUE
              /\ importCall' = [importCall EXCEPT !.pc = "done", !.wrote = TRUE,
                     !.result = [success |-> TRUE, message |-> "Successfully imported",
                                 count |-> Len(importCall.items)]]
         ELSE /\ importCall' = ImportCatch([importCall EXCEPT !.failed = @ \cup {"set"}])
              /\ UNCHANGED <<inactiveWindows, inactiveWindowsSet>>
    /\ UNCHANGED <<winTabs, tabRelationships, removed, created, deact, react,
                   events, lastTabId, lastWindowId, exportCall>>
    /\ UNCHANGED queueVars

\* sendResponse(result) of the message listener (lines 2002-2011)
ImportRespond ==
    /\ importCall.pc = "done"
    /\ importCall' = IdleImport
    /\ UNCHANGED <<winTabs, tabRelationships, inactiveWindows, inactiveWindowsSet,
                   removed, created, deact, react, events, lastTabId, lastWindowId,
                   exportCall>>
    /\ UNCHANGED queueVars

\* ------------------------------------------------------- YouTube queue cache
\* A URL is modelled by the parts the code reads from its text: which of the
\* substrings tested at lines 1401-1406 it holds, and its query parameters
\* v, list and index as URL.searchParams.get returns them.  A parameter
\* that is absent (get gives null) and one that is empty (get gives "")
\* are both falsy at lines 1439 and 1446 and are both written NoParam.
NoParam == ""

WatchHost == "youtube.com/watch"

ShortHost == "youtu.be/"

OtherHost == "example.org/"

Hosts == {WatchHost, ShortHost, OtherHost}

VideoIds == {"X", "Z"}

PlaylistIds == {"Y", "W"}

Indexes == {"3", "9"}

Urls == [host : Hosts, v : VideoIds \cup {NoParam},
         list : PlaylistIds \cup {NoParam}, index : Indexes \cup {NoParam}]

Url(host, v, list, index) == [host |-> host, v |-> v, list |-> list, index |-> index]

\* the page of a tab that shows no video
BlankUrl == Url(OtherHost, NoParam, NoParam, NoParam)

\* lines 1401-1406
isYouTubeWatchUrl(url) == url.host \in {WatchHost, ShortHost}

null == [null |-> TRUE]

\* mutant: the canonical key keeps the index parameter
extractYouTubeQueueFromUrl_keepsIndex(url) ==
    IF ~isYouTubeWatchUrl(url) THEN null
    ELSE IF url.v = NoParam THEN null
    ELSE IF url.list = NoParam THEN null
    ELSE [mainVideoId |-> url.v, playlistId |-> url.list,
          currentIndex |-> url.index,
          baseUrl |-> Url(WatchHost, url.v, url.list, url.index)]

\* mutant: a URL without a list parameter still gets a canonical key
extractYouTubeQueueFromUrl_noListTest(url) ==
    IF ~isYouTubeWatchUrl(url) THEN null
    ELSE IF url.v = NoParam THEN null
    ELSE [mainVideoId |-> url.v, playlistId |-> url.list,
          currentIndex |-> url.index,
          baseUrl |-> Url(WatchHost, url.v, url.list, NoParam)]

\* lines 1431-1461.  baseUrl is the text
\* `https://www.youtube.com/watch?v=${videoId}&list=${list}`: the URL with
\* the watch host, these two parameters and no index
extractYouTubeQueueFromUrl(url) ==
    IF ~isYouTubeWatchUrl(url) THEN null
    ELSE IF url.v = NoParam THEN null
    ELSE IF url.list = NoParam THEN null
    ELSE [mainVideoId |-> url.v, playlistId |-> url.list,
          currentIndex |-> url.index,
          baseUrl |-> Url(WatchHost, url.v, url.list, NoParam)]

\* the keys of the map stored under youtubeQueues: `tab-${tabId}` (lines
\* 1380, 1564) and a baseUrl (lines 1387, 1566)
SessionKey(tabId) == [kind |-> "tab-", tabId |-> tabId, baseUrl |-> BlankUrl]

CanonicalKey(baseUrl) == [kind |-> "url", tabId |-> undefined, baseUrl |-> baseUrl]

\* youtubeQueues[key] = value, on a copy
SetKey(queues, key, value) == (key :> value) @@ queues

\* delete youtubeQueues[key], on a copy
DeleteKey(queues, key) == [k \in DOMAIN queues \ {key} |-> queues[k]]

\* result.youtubeQueues || {}
EmptyQueues == [k \in {} |-> null]

\* what the injected function (lines 1484-1523) finds in the playlist panel
\* of a page once the panel is rendered in full: the items of the playlist
\* the URL names, in order; a page without a list parameter has no panel
PageVideos(url) ==
    IF ~isYouTubeWatchUrl(url) \/ url.v = NoParam THEN <<>>
    ELSE IF url.list = "Y" THEN <<"a", "b">>
    ELSE IF url.list = "W" THEN <<"c">>
    ELSE <<>>

\* lines 1529-1536
QueueDataOf(tab, videos) ==
    [tabId |-> tab.id, url |-> tab.url,
     baseUrl |-> extractYouTubeQueueFromUrl(tab.url).baseUrl,
     mainVideoId |-> extractYouTubeQueueFromUrl(tab.url).mainVideoId,
     playlistId |-> extractYouTubeQueueFromUrl(tab.url).playlistId,
     videos |-> videos]

\* lines 1386-1389 and 1566-1569; the timestamp field is written and never
\* read, and is left out
CanonicalRecord(videos) == [videos |-> videos]

\* the tabs that navigate in the model go to one of these URLs
NavUrls ==
    {Url(WatchHost, "X", "Y", "3"), Url(WatchHost, "X", "Y", "9"),
     Url(WatchHost, "X", "W", NoParam), Url(WatchHost, "X", NoParam, NoParam),
     Url(ShortHost, NoParam, "Y", NoParam), Url(OtherHost, "X", "Y", "3")}

UpdatedCalls == 1..MaxNavigations

NoTab == [id |-> undefined, url |-> BlankUrl]

\* one run of the onUpdated listener: tab is the listener's third argument,
\* queueData what extractYouTubeQueueInfo resolved to, youtubeQueues the map
\* the storage callback builds
IdleUpdated ==
    [pc |-> "idle", tab |-> NoTab, queueData |-> null, youtubeQueues |-> EmptyQueues]

IdleRemovedQueue == [pc |-> "idle", youtubeQueues |-> EmptyQueues]

IdleGetTabs == [pc |-> "idle", tabs |-> <<>>]

\* a tab finishes loading url: chrome.tabs.onUpdated fires with status
\* 'complete' (lines 1549-1552) and extractYouTubeQueueInfo runs up to its
\* first await (lines 1465-1474)
Navigate(t, url) ==
    /\ t \in LiveTabs
    /\ events.navigations < MaxNavigations
    /\ events' = [events EXCEPT !.navigations = @ + 1]
    /\ tabUrl' = [tabUrl EXCEPT ![t] = url]
    /\ updated' =
          IF isYouTubeWatchUrl(url) /\ extractYouTubeQueueFromUrl(url) # null
          THEN [updated EXCEPT ![events.navigations + 1] =
                   [IdleUpdated EXCEPT !.pc = "query",
                                       !.tab = [id |-> t, url |-> url]]]
          ELSE updated
    /\ UNCHANGED <<youtubeQueues, removedQueue, getTabs>>
    /\ UNCHANGED <<winTabs, tabRelationships, inactiveWindows, inactiveWindowsSet,
                   removed, created, deact, react, lastTabId, lastWindowId>>
    /\ UNCHANGED ioVars

\* await chrome.tabs.query({}) (line 1474), then lines 1475-1482; a
\* rejection is caught at line 1538 and the function returns null
UpdatedQuery(u) ==
    /\ updated[u].pc = "query"
    /\ \E ok \in BOOLEAN :
          updated' = IF ok /\ updated[u].tab.id \in LiveTabs
                     THEN [updated EXCEPT ![u].pc = "script"]
                     ELSE [updated EXCEPT ![u] = IdleUpdated]
    /\ UNCHANGED <<tabUrl, youtubeQueues, removedQueue, getTabs>>
    /\ UNCHANGED <<winTabs, tabRelationships, inactiveWindows, inactiveWindowsSet,
                   removed, created, deact, react, events, lastTabId, lastWindowId>>
    /\ UNCHANGED ioVars

\* what chrome.scripting.executeScript (line 1482) can give for the tab:
\* a rejection, a result without a value, or the list the injected function
\* found in the page the tab shows now: as many items of the playlist as
\* the panel has rendered so far, none to all
ScriptOutcomes(tabId) ==
    {[kind |-> "reject", videos |-> <<>>], [kind |-> "noResult", videos |-> <<>>]} \cup
    (IF tabId \in LiveTabs
     THEN {[kind |-> "result", videos |-> SubSeq(PageVideos(tabUrl[tabId]), 1, n)] :
              n \in 0..Len(PageVideos(tabUrl[tabId]))}
     ELSE {})

\* mutant: an empty list is cached like any other
UpdatedScript_cachesEmpty(u) ==
    /\ updated[u].pc = "script"
    /\ \E outcome \in ScriptOutcomes(updated[u].tab.id) :
          updated' =
             IF outcome.kind # "result"
             THEN [updated EXCEPT ![u] = IdleUpdated]
             ELSE [updated EXCEPT ![u].pc = "get",
                                  ![u].queueData = QueueDataOf(updated[u].tab, outcome.videos)]
    /\ UNCHANGED <<tabUrl, youtubeQueues, removedQueue, getTabs>>
    /\ UNCHANGED <<winTabs, tabRelationships, inactiveWindows, inactiveWindowsSet,
                   removed, created, deact, react, events, lastTabId, lastWindowId>>
    /\ UNCHANGED ioVars

\* await chrome.scripting.executeScript (line 1482), then lines 1527-1546 and
\* the listener's then-callback up to chrome.storage.local.get (lines
\* 1555-1561); a rejection is caught at line 1538
UpdatedScript(u) ==
    /\ updated[u].pc = "script"
    /\ \E outcome \in ScriptOutcomes(updated[u].tab.id) :
          updated' =
             IF outcome.kind # "result" \/ Len(outcome.videos) = 0
             THEN [updated EXCEPT ![u] = IdleUpdated]
             ELSE [updated EXCEPT ![u].pc = "get",
                                  ![u].queueData = QueueDataOf(updated[u].tab, outcome.videos)]
    /\ UNCHANGED <<tabUrl, youtubeQueues, removedQueue, getTabs>>
    /\ UNCHANGED <<winTabs, tabRelationships, inactiveWindows, inactiveWindowsSet,
                   removed, created, deact, react, events, lastTabId, lastWindowId>>
    /\ UNCHANGED ioVars

\* mutant: the listener stores the list under the session key only
UpdatedGet_sessionOnly(u) ==
    /\ updated[u].pc = "get"
    /\ updated' = [updated EXCEPT
          ![u].pc = "set",
          ![u].youtubeQueues =
              SetKey(youtubeQueues, SessionKey(updated[u].tab.id),
                     updated[u].queueData)]
    /\ UNCHANGED <<tabUrl, youtubeQueues, removedQueue, getTabs>>
    /\ UNCHANGED <<winTabs, tabRelationships, inactiveWindows, inactiveWindowsSet,
                   removed, created, deact, react, events, lastTabId, lastWindowId>>
    /\ UNCHANGED ioVars

\* the callback of chrome.storage.local.get(['youtubeQueues']) (lines
\* 1561-1572), up to its chrome.storage.local.set
UpdatedGet(u) ==
    /\ updated[u].pc = "get"
    /\ updated' = [updated EXCEPT
          ![u].pc = "set",
          ![u].youtubeQueues =
              SetKey(SetKey(youtubeQueues, SessionKey(updated[u].tab.id),
                            updated[u].queueData),
                     CanonicalKey(updated[u].queueData.baseUrl),
                     CanonicalRecord(updated[u].queueData.videos))]
    /\ UNCHANGED <<tabUrl, youtubeQueues, removedQueue, getTabs>>
    /\ UNCHANGED <<winTabs, tabRelationships, inactiveWindows, inactiveWindowsSet,
                   removed, created, deact, react, events, lastTabId, lastWindowId>>
    /\ UNCHANGED ioVars

\* chrome.storage.local.set({ youtubeQueues }) of line 1572 takes effect
UpdatedSet(u) ==
    /\ updated[u].pc = "set"
    /\ youtubeQueues' = updated[u].youtubeQueues
    /\ updated' = [updated EXCEPT ![u] = IdleUpdated]
    /\ UNCHANGED <<tabUrl, removedQueue, getTabs>>
    /\ UNCHANGED <<winTabs, tabRelationships, inactiveWindows, inactiveWindowsSet,
                   removed, created, deact, react, events, lastTabId, lastWindowId>>
    /\ UNCHANGED ioVars

\* the user closes a tab: chrome.tabs.onRemoved fires and the listener asks
\* the storage for youtubeQueues (lines 1363, 1377).  The listener's other
\* half (lines 1367-1375) reads and writes the key tabRelationships only and
\* is the subject of CloseTab, RemovedGet and RemovedSet
CloseQueueTab(t) ==
    /\ t \in LiveTabs
    /\ removedQueue[t].pc = "idle"
    /\ events.closes < MaxCloses
    /\ events' = [events EXCEPT !.closes = @ + 1]
    /\ winTabs' = [w \in WinIds |-> Without(winTabs[w], t)]
    /\ removedQueue' = [removedQueue EXCEPT ![t].pc = "get"]
    /\ UNCHANGED <<tabUrl, youtubeQueues, updated, getTabs>>
    /\ UNCHANGED <<tabRelationships, inactiveWindows, inactiveWindowsSet,
                   removed, created, deact, react, lastTabId, lastWindowId>>
    /\ UNCHANGED ioVars

\* mutant: the session record is deleted and its list is not kept
RemovedQueueGet_deleteOnly(t) ==
    /\ removedQueue[t].pc = "get"
    /\ removedQueue' =
          IF SessionKey(t) \in DOMAIN youtubeQueues
          THEN [removedQueue EXCEPT
                   ![t].pc = "set",
                   ![t].youtubeQueues = DeleteKey(youtubeQueues, SessionKey(t))]
          ELSE [removedQueue EXCEPT ![t] = IdleRemovedQueue]
    /\ UNCHANGED <<tabUrl, youtubeQueues, updated, getTabs>>
    /\ UNCHANGED <<winTabs, tabRelationships, inactiveWindows, inactiveWindowsSet,
                   removed, created, deact, react, events, lastTabId, lastWindowId>>
    /\ UNCHANGED ioVars

\* the callback of chrome.storage.local.get(['youtubeQueues']) (lines
\* 1377-1397), up to its chrome.storage.local.set; every session record
\* has a baseUrl (line 1532), so the test of line 1385 passes
RemovedQueueGet(t) ==
    /\ removedQueue[t].pc = "get"
    /\ removedQueue' =
          IF SessionKey(t) \in DOMAIN youtubeQueues
          THEN [removedQueue EXCEPT
                   ![t].pc = "set",
                   ![t].youtubeQueues =
                       DeleteKey(SetKey(youtubeQueues,
                                        CanonicalKey(youtubeQueues[SessionKey(t)].baseUrl),
                                        CanonicalRecord(youtubeQueues[SessionKey(t)].videos)),
                                 SessionKey(t))]
          ELSE [removedQueue EXCEPT ![t] = IdleRemovedQueue]
    /\ UNCHANGED <<tabUrl, youtubeQueues, updated, getTabs>>
    /\ UNCHANGED <<winTabs, tabRelationships, inactiveWindows, inactiveWindowsSet,
                   removed, created, deact, react, events, lastTabId, lastWindowId>>
    /\ UNCHANGED ioVars

\* chrome.storage.local.set({ youtubeQueues }) of line 1395 takes effect
RemovedQueueSet(t) ==
    /\ removedQueue[t].pc = "set"
    /\ youtubeQueues' = removedQueue[t].youtubeQueues
    /\ removedQueue' = [removedQueue EXCEPT ![t] = IdleRemovedQueue]
    /\ UNCHANGED <<tabUrl, updated, getTabs>>
    /\ UNCHANGED <<winTabs, tabRelationships, inactiveWindows, inactiveWindowsSet,
                   removed, created, deact, react, events, lastTabId, lastWindowId>>
    /\ UNCHANGED ioVars

RECURSIVE TabsFrom(_)
\* the tabs chrome.tabs.query({}) lists: those of every window, window by window
TabsFrom(w) == IF w \notin WinIds THEN <<>> ELSE winTabs[w] \o TabsFrom(w + 1)

\* a tab as getTabs answers it: attached says whether the property
\* youtubeQueue was set on it
TabAnswer(tab, attached, videos, restored) ==
    [id |-> tab.id, url |-> tab.url, attached |-> attached,
     youtubeQueue |-> videos, hasRestoredQueue |-> restored]

\* mutant: the lookup tries the canonical key first
LookupTab_canonicalFirst(tab, queues) ==
    IF ~isYouTubeWatchUrl(tab.url) THEN TabAnswer(tab, FALSE, <<>>, FALSE)
    ELSE IF /\ extractYouTubeQueueFromUrl(tab.url) # null
            /\ CanonicalKey(extractYouTubeQueueFromUrl(tab.url).baseUrl) \in DOMAIN queues
    THEN TabAnswer(tab, TRUE,
                   queues[CanonicalKey(extractYouTubeQueueFromUrl(tab.url).baseUrl)].videos,
                   TRUE)
    ELSE IF SessionKey(tab.id) \in DOMAIN queues
    THEN TabAnswer(tab, TRUE, queues[SessionKey(tab.id)].videos, FALSE)
    ELSE TabAnswer(tab, FALSE, <<>>, FALSE)

\* mutant: a list found under the canonical key is not marked as restored
LookupTab_noFlag(tab, queues) ==
    IF ~isYouTubeWatchUrl(tab.url) THEN TabAnswer(tab, FALSE, <<>>, FALSE)
    ELSE IF SessionKey(tab.id) \in DOMAIN queues
    THEN TabAnswer(tab, TRUE, queues[SessionKey(tab.id)].videos, FALSE)
    ELSE IF /\ extractYouTubeQueueFromUrl(tab.url) # null
            /\ CanonicalKey(extractYouTubeQueueFromUrl(tab.url).baseUrl) \in DOMAIN queues
    THEN TabAnswer(tab, TRUE,
                   queues[CanonicalKey(extractYouTubeQueueFromUrl(tab.url).baseUrl)].videos,
                   FALSE)
    ELSE TabAnswer(tab, FALSE, <<>>, FALSE)

\* the body of tabs.forEach, lines 1594-1616
LookupTab(tab, queues) ==
    IF ~isYouTubeWatchUrl(tab.url) THEN TabAnswer(tab, FALSE, <<>>, FALSE)
    ELSE IF SessionKey(tab.id) \in DOMAIN queues
    THEN TabAnswer(tab, TRUE, queues[SessionKey(tab.id)].videos, FALSE)
    ELSE IF /\ extractYouTubeQueueFromUrl(tab.url) # null
            /\ CanonicalKey(extractYouTubeQueueFromUrl(tab.url).baseUrl) \in DOMAIN queues
    THEN TabAnswer(tab, TRUE,
                   queues[CanonicalKey(extractYouTubeQueueFromUrl(tab.url).baseUrl)].videos,
                   TRUE)
    ELSE TabAnswer(tab, FALSE, <<>>, FALSE)

\* a page sends { action: 'getTabs' }: the listener calls chrome.tabs.query
\* (lines 1583-1586)
GetTabsStart ==
    /\ getTabs.pc = "idle"
    /\ events.lookups < MaxLookups
    /\ events' = [events EXCEPT !.lookups = @ + 1]
    /\ getTabs' = [IdleGetTabs EXCEPT !.pc = "query"]
    /\ UNCHANGED <<tabUrl, youtubeQueues, updated, removedQueue>>
    /\ UNCHANGED <<winTabs, tabRelationships, inactiveWindows, inactiveWindowsSet,
                   removed, created, deact, react, lastTabId, lastWindowId>>
    /\ UNCHANGED ioVars

\* the callback of chrome.tabs.query (lines 1586-1589), up to its
\* chrome.storage.local.get
GetTabsQuery ==
    /\ getTabs.pc = "query"
    /\ getTabs' = [getTabs EXCEPT
          !.pc = "get",
          !.tabs = [i \in DOMAIN TabsFrom(1) |->
                       [id |-> TabsFrom(1)[i], url |-> tabUrl[TabsFrom(1)[i]]]]]
    /\ UNCHANGED <<tabUrl, youtubeQueues, updated, removedQueue>>
    /\ UNCHANGED <<winTabs, tabRelationships, inactiveWindows, inactiveWindowsSet,
                   removed, created, deact, react, events, lastTabId, lastWindowId>>
    /\ UNCHANGED ioVars

\* the callback of chrome.storage.local.get(['youtubeQueues']) (lines
\* 1589-1618): the answer is built and sent
GetTabsGet ==
    /\ getTabs.pc = "get"
    /\ getTabs' = [getTabs EXCEPT
          !.pc = "done",
          !.tabs = [i \in DOMAIN getTabs.tabs |->
                       LookupTab(getTabs.tabs[i], youtubeQueues)]]
    /\ UNCHANGED <<tabUrl, youtubeQueues, updated, removedQueue>>
    /\ UNCHANGED <<winTabs, tabRelationships, inactiveWindows, inactiveWindowsSet,
                   removed, created, deact, react, events, lastTabId, lastWindowId>>
    /\ UNCHANGED ioVars

\* the page has the answer
GetTabsRespond ==
    /\ getTabs.pc = "done"
    /\ getTabs' = IdleGetTabs
    /\ UNCHANGED <<tabUrl, youtubeQueues, updated, removedQueue>>
    /\ UNCHANGED <<winTabs, tabRelationships, inactiveWindows, inactiveWindowsSet,
                   removed, created, deact, react, events, lastTabId, lastWindowId>>
    /\ UNCHANGED ioVars

\* the queue cache and its handlers at rest: every tab shows a page without
\* a video and nothing is cached
QueueCacheAtRest ==
    /\ tabUrl = [t \in TabIds |-> BlankUrl]
    /\ youtubeQueues = EmptyQueues
    /\ updated = [u \in UpdatedCalls |-> IdleUpdated]
    /\ removedQueue = [t \in TabIds |-> IdleRemovedQueue]
    /\ getTabs = IdleGetTabs

NoEvents == [opens |-> 0, closes |-> 0, captures |-> 0, restores |-> 0,
             imports |-> 0, exports |-> 0, navigations |-> 0, lookups |-> 0]

\* ------------------------------------------------------------ specification
\* a snapshot that deactivateWindow stored in an earlier browser session,
\* of a window with tab 1 and tab 2 opened from it; the identities are
\* those of that session
EarlierSnapshot ==
    [id |-> 1,
     deactivatedAt |-> 0,
     tabs |-> <<[originalId |-> 1, index |-> 0, pinned |-> FALSE,
                 parentTabId |-> undefined],
                [originalId |-> 2, index |-> 1, pinned |-> FALSE,
                 parentTabId |-> 1]>>]

\* the extension starts in a browser with one window holding one tab; the
\* storage is empty or holds the snapshot of an earlier session
Init ==
    /\ winTabs = [w \in WinIds |-> IF w = 1 THEN <<1>> ELSE <<>>]
    /\ tabRelationships = EmptyRelationships
    /\ \/ inactiveWindows = <<>> /\ inactiveWindowsSet = FALSE
       \/ inactiveWindows = <<EarlierSnapshot>> /\ inactiveWindowsSet = TRUE
    /\ removed = [t \in TabIds |-> IdleRemoved]
    /\ created = [t \in TabIds |-> IdleCreated]
    /\ deact = [c \in DeactCalls |-> IdleDeact]
    /\ react = [c \in ReactCalls |-> IdleReact]
    /\ events = NoEvents
    /\ importCall = IdleImport
    /\ exportCall = IdleExport
    /\ lastTabId = 1
    /\ lastWindowId = 1
    /\ QueueCacheAtRest

Next ==
    \/ \E w \in WinIds, opener \in TabOrUndef : OpenTab(w, opener)
    \/ \E t \in TabIds : CreatedGet(t)
    \/ \E t \in TabIds : CreatedSet(t)
    \/ \E t \in TabIds : CloseTab(t)
    \/ \E t \in TabIds : RemovedGet(t)
    \/ \E t \in TabIds : RemovedSet(t)
    \/ \E c \in DeactCalls, w \in WinIds : DeactivateStart(c, w)
    \/ \E c \in DeactCalls : DeactQuery(c)
    \/ \E c \in DeactCalls : DeactGetRelationships(c)
    \/ \E c \in DeactCalls : DeactGetInactive(c)
    \/ \E c \in DeactCalls : DeactSetInactive(c)
    \/ \E c \in DeactCalls : DeactRemove(c)
    \/ \E c \in DeactCalls : DeactRespond(c)
    \/ \E c \in ReactCalls, i \in 0..(MaxCaptures + 1) : ReactivateStart(c, i)
    \/ \E c \in ReactCalls : ReactGetInactive(c)
    \/ \E c \in ReactCalls : ReactCreateWindow(c)
    \/ \E c \in ReactCalls : ReactQueryInitial(c)
    \/ \E c \in ReactCalls : ReactCreateTab(c)
    \/ \E c \in ReactCalls : ReactUpdatePinned(c)
    \/ \E c \in ReactCalls : ReactGetRelationships(c)
    \/ \E c \in ReactCalls : ReactSetRelationships(c)
    \/ \E c \in ReactCalls : ReactSetInactive(c)
    \/ \E c \in ReactCalls : ReactRespond(c)

Spec == Init /\ [][Next]_vars

\* ------------------------------------------------------------------ claims

\* C1: deactivateWindow issues the call that destroys the window only after
\* the write of the list holding the new snapshot has been acknowledged, and
\* at that moment the persisted inactiveWindows list is exactly one element
\* longer than the list the capture read.
C1_DestroyAfterPersist ==
    [][\A c \in DeactCalls :
         /\ deact'[c].removeIssued => deact'[c].wrote
         /\ (~deact[c].removeIssued /\ deact'[c].removeIssued) =>
              /\ inactiveWindowsSet'
              /\ Len(inactiveWindows') = Len(deact'[c].inactiveWindows) + 1
              /\ Tail(inactiveWindows') = deact'[c].inactiveWindows
         /\ (deact[c].pc = "remove" /\ deact'[c].pc = "done"
               /\ winTabs'[deact[c].windowId] # winTabs[deact[c].windowId]) =>
              deact[c].wrote
      ]_vars

\* a capture has issued the destroy call after adding its snapshot to a list
\* that already held one
C1_Witness ==
    \E c \in DeactCalls :
        /\ deact[c].pc = "remove"
        /\ Len(deact[c].inactiveWindows) = 1
        /\ Len(inactiveWindows) = 2

\* C2: deactivateWindow called for a window with zero live tabs returns
\* false, leaves the persisted inactiveWindows list unchanged and issues no
\* window-destroy call.
C2_NoTabsNoEffect ==
    [][\A c \in DeactCalls :
         (/\ deact[c].pc = "query"
          /\ deact'[c].pc # "query"
          /\ winTabs[deact[c].windowId] = <<>>) =>
              /\ deact'[c].pc = "done"
              /\ ~deact'[c].result
              /\ ~deact'[c].wrote
              /\ ~deact'[c].removeIssued
              /\ UNCHANGED <<inactiveWindows, inactiveWindowsSet, winTabs>>
      ]_vars

\* a capture of a window without tabs has returned false although no host
\* call failed, with a snapshot in the store
C2_Witness ==
    \E c \in DeactCalls :
        /\ deact[c].pc = "done"
        /\ ~deact[c].result
        /\ deact[c].failed = {}
        /\ winTabs[deact[c].windowId] = <<>>
        /\ Len(inactiveWindows) = 1

\* the host calls of deactivateWindow that precede windows.remove
BeforeRemove == {"query", "getRelationships", "getInactive", "setInactive"}

\* C3: when the tab enumeration, the relationship read, the store read or
\* the store write of deactivateWindow fails, the call returns false and
\* never issues the window-destroy call: the window stays live.
C3_FailureKeepsWindow ==
    [][\A c \in DeactCalls :
         (deact'[c].failed \cap BeforeRemove # {}) =>
              /\ deact'[c].pc = "done"
              /\ ~deact'[c].result
              /\ ~deact'[c].removeIssued
              /\ (deact[c].failed = {} =>
                     winTabs'[deact[c].windowId] = winTabs[deact[c].windowId])
      ]_vars

\* the store write of a capture has failed and the window is still live
C3_Witness ==
    \E c \in DeactCalls :
        /\ deact[c].pc = "done"
        /\ "setInactive" \in deact[c].failed
        /\ winTabs[deact[c].windowId] # <<>>

\* C4: the snapshot built by deactivateWindow has one TabSnapshot per live
\* tab of the window, in the order of the enumerated tabs; each has
\* originalId equal to the tab's live identity and parentTabId equal to the
\* parent recorded for that identity in the Relationship Store at capture
\* time, or no parentTabId when the store has no entry for it.  That
\* snapshot is what the capture puts at the head of the persisted list.
C4_SnapshotOfLiveTabs ==
    [][\A c \in DeactCalls :
         /\ (deact[c].pc = "query" /\ deact'[c].pc = "getRelationships") =>
              /\ Len(deact'[c].tabs) = Len(winTabs[deact[c].windowId])
              /\ \A i \in DOMAIN deact'[c].tabs :
                     deact'[c].tabs[i].id = winTabs[deact[c].windowId][i]
         /\ (deact[c].pc = "getRelationships" /\ deact'[c].pc = "getInactive") =>
              /\ Len(deact'[c].windowData.tabs) = Len(deact[c].tabs)
              /\ \A i \in DOMAIN deact[c].tabs :
                     /\ deact'[c].windowData.tabs[i].originalId = deact[c].tabs[i].id
                     /\ deact'[c].windowData.tabs[i].parentTabId =
                            tabRelationships[deact[c].tabs[i].id]
         /\ (deact[c].pc = "setInactive" /\ deact'[c].pc = "remove") =>
              Head(inactiveWindows') = deact[c].windowData
      ]_vars

\* a capture has built the snapshot of a window in which one tab has a
\* recorded parent and another has none
C4_Witness ==
    \E c \in DeactCalls :
        /\ deact[c].pc = "getInactive"
        /\ \E i, j \in DOMAIN deact[c].windowData.tabs :
              /\ deact[c].windowData.tabs[i].parentTabId # undefined
              /\ deact[c].windowData.tabs[j].parentTabId = undefined

\* the identities that restore call c has in its mapping table as values
MappingValues(c) == {react[c].tabIdMapping[o] : o \in TabIds} \ {undefined}

\* the children whose entry restore call c changed
AddedEdges(c) ==
    {t \in TabIds : /\ react[c].wroteRelationships
                    /\ react[c].relationships[t] # react[c].tabRelationships[t]}

\* the tabs of the snapshot of restore call c whose edge resolves in the
\* mapping table at both ends
ResolvedEdges(c) ==
    {i \in DOMAIN react[c].windowData.tabs :
        LET tab == react[c].windowData.tabs[i]
        IN  /\ tab.parentTabId # undefined
            /\ tab.originalId # undefined
            /\ react[c].tabIdMapping[tab.originalId] # undefined
            /\ react[c].tabIdMapping[tab.parentTabId] # undefined}

\* C5: after reactivateWindow, every relationship edge it added has as child
\* and as parent a value of the mapping table built by this restore, which
\* is a tab this restore created in the new window.
C5_EdgesWithinMapping ==
    \A c \in ReactCalls :
        react[c].pc \in {"setInactive", "done"} =>
            \A t \in AddedEdges(c) :
                /\ t \in MappingValues(c)
                /\ react[c].relationships[t] \in MappingValues(c)
                /\ t \in react[c].created
                /\ react[c].relationships[t] \in react[c].created

\* a restore has finished after adding an edge, and its mapping table does
\* not map the identities to themselves
C5_Witness ==
    \E c \in ReactCalls :
        /\ react[c].pc = "done"
        /\ AddedEdges(c) # {}
        /\ \E o \in TabIds : react[c].tabIdMapping[o] \notin {undefined, o}

\* C6: for every TabSnapshot with a parentTabId whose originalId and
\* parentTabId both have an entry in the mapping table, restore records the
\* edge mapping[originalId] -> mapping[parentTabId] in the Relationship
\* Store; the entries its write changes are exactly these edges.
C6_EdgesAreImages ==
    [][\A c \in ReactCalls :
         (~react[c].wroteRelationships /\ react'[c].wroteRelationships) =>
            /\ \A i \in ResolvedEdges(c) :
                 LET tab == react[c].windowData.tabs[i]
                 IN  tabRelationships'[react[c].tabIdMapping[tab.originalId]] =
                         react[c].tabIdMapping[tab.parentTabId]
            /\ \A t \in TabIds :
                 tabRelationships'[t] # react[c].tabRelationships[t] =>
                     \E i \in ResolvedEdges(c) :
                         LET tab == react[c].windowData.tabs[i]
                         IN  /\ t = react[c].tabIdMapping[tab.originalId]
                             /\ tabRelationships'[t] =
                                    react[c].tabIdMapping[tab.parentTabId]
      ]_vars

\* a restore has written the edge of one tab of its snapshot and dropped
\* the edge of another, whose end has no entry in the mapping table
C6_Witness ==
    \E c \in ReactCalls :
        /\ react[c].wroteRelationships
        /\ ResolvedEdges(c) # {}
        /\ \E i \in DOMAIN react[c].windowData.tabs :
              /\ react[c].windowData.tabs[i].parentTabId # undefined
              /\ i \notin ResolvedEdges(c)
        /\ \A i \in ResolvedEdges(c) :
              tabRelationships[react[c].tabIdMapping[
                  react[c].windowData.tabs[i].originalId]] # undefined

\* ------------------------------------------- capture followed by restore
\* a window whose tabs are T1 (no parent) and T2 (opened from T1), beside
\* the window that shows the tab manager; the host has handed out
\* identities before, the storage is empty or holds an earlier snapshot
InitA ==
    /\ \E w \in WinIds, u \in WinIds, T1 \in TabIds, T2 \in TabIds, T3 \in TabIds :
          /\ w # u
          /\ Cardinality({T1, T2, T3}) = 3
          /\ winTabs = [x \in WinIds |-> IF x = w THEN <<T1, T2>>
                                         ELSE IF x = u THEN <<T3>> ELSE <<>>]
          /\ tabRelationships = [EmptyRelationships EXCEPT ![T2] = T1]
    /\ \/ inactiveWindows = <<>> /\ inactiveWindowsSet = FALSE
       \/ inactiveWindows = <<EarlierSnapshot>> /\ inactiveWindowsSet = TRUE
    /\ removed = [t \in TabIds |-> IdleRemoved]
    /\ created = [t \in TabIds |-> IdleCreated]
    /\ deact = [c \in DeactCalls |-> IdleDeact]
    /\ react = [c \in ReactCalls |-> IdleReact]
    /\ events = NoEvents
    /\ importCall = IdleImport
    /\ exportCall = IdleExport
    /\ lastTabId \in TabIds
    /\ lastWindowId \in WinIds
    /\ QueueCacheAtRest

\* window w holds two tabs, the second recorded as the child of the first,
\* and the Relationship Store holds nothing else
ParentAndChild(w) ==
    /\ Len(winTabs[w]) = 2
    /\ tabRelationships = [EmptyRelationships EXCEPT ![winTabs[w][2]] = winTabs[w][1]]

\* the user deactivates the window of the two tabs while no other request
\* is being served
CaptureParentAndChild(c) ==
    /\ NoneInFlight
    /\ \E w \in WinIds : ParentAndChild(w) /\ DeactivateStart(c, w)

\* the user restores the first entry of the list once the capture has
\* answered, the window is gone and the tab-removed listeners are through
RestoreCaptured(c) ==
    /\ NoneInFlight
    /\ events.captures > events.restores
    /\ Cardinality(LiveWins) = 1
    /\ ReactivateStart(c, 0)

NextA ==
    \/ \E c \in DeactCalls : CaptureParentAndChild(c)
    \/ \E c \in DeactCalls : DeactQuery(c)
    \/ \E c \in DeactCalls : DeactGetRelationships(c)
    \/ \E c \in DeactCalls : DeactGetInactive(c)
    \/ \E c \in DeactCalls : DeactSetInactive(c)
    \/ \E c \in DeactCalls : DeactRemove(c)
    \/ \E c \in DeactCalls : DeactRespond(c)
    \/ \E t \in TabIds : RemovedGet(t)
    \/ \E t \in TabIds : RemovedSet(t)
    \/ \E c \in ReactCalls : RestoreCaptured(c)
    \/ \E c \in ReactCalls : ReactGetInactive(c)
    \/ \E c \in ReactCalls : ReactCreateWindow(c)
    \/ \E c \in ReactCalls : ReactQueryInitial(c)
    \/ \E c \in ReactCalls : ReactCreateTab(c)
    \/ \E c \in ReactCalls : ReactUpdatePinned(c)
    \/ \E c \in ReactCalls : ReactGetRelationships(c)
    \/ \E c \in ReactCalls : ReactSetRelationships(c)
    \/ \E c \in ReactCalls : ReactSetInactive(c)
    \/ \E c \in ReactCalls : ReactRespond(c)

SpecA == InitA /\ [][NextA]_vars

\* C7: for a window whose tabs are T1 (no parent) and T2 (parent T1), once
\* deactivateWindow, the tab-removed listeners it set off and then
\* reactivateWindow(0) have completed with no host call failing, the
\* Relationship Store holds exactly one edge: its child is the tab
\* recreated from T2, its parent the tab recreated from T1.
C7_RoundTrip ==
    \A c \in ReactCalls :
        (react[c].pc = "done" /\ react[c].result /\ react[c].failed = {}) =>
            /\ Len(react[c].windowData.tabs) = 2
            /\ LET T1 == react[c].windowData.tabs[1].originalId
                   T2 == react[c].windowData.tabs[2].originalId
                   new1 == react[c].tabIdMapping[T1]
                   new2 == react[c].tabIdMapping[T2]
               IN  /\ T1 # T2
                   /\ react[c].windowData.tabs[1].parentTabId = undefined
                   /\ react[c].windowData.tabs[2].parentTabId = T1
                   /\ new1 # undefined /\ new2 # undefined /\ new1 # new2
                   /\ winTabs[react[c].newWindowId] = <<new1, new2>>
                   /\ tabRelationships = [EmptyRelationships EXCEPT ![new2] = new1]

\* a round trip has completed in which the recreated tabs do not carry the
\* identities the captured tabs had
C7_Witness ==
    \E c \in ReactCalls :
        /\ react[c].pc = "done" /\ react[c].result /\ react[c].failed = {}
        /\ Len(react[c].windowData.tabs) = 2
        /\ react[c].tabIdMapping[react[c].windowData.tabs[2].originalId] #
               react[c].windowData.tabs[2].originalId
        /\ \E t \in TabIds : tabRelationships[t] # undefined

\* C8: reactivateWindow called with an index that has no snapshot in the
\* persisted store (out of range, or the store absent) returns false,
\* creates no window or tab and leaves the WindowSnapshotStore and the
\* Relationship Store unchanged.
C8_NoSnapshotNoEffect ==
    [][\A c \in ReactCalls :
         (/\ react[c].pc = "getInactive"
          /\ react'[c].pc # "getInactive"
          /\ \/ ~inactiveWindowsSet
             \/ react[c].inactiveWindowIndex + 1 \notin DOMAIN inactiveWindows) =>
              /\ react'[c].pc = "done"
              /\ ~react'[c].result
              /\ react'[c].created = {}
              /\ react'[c].newWindowId = undefined
              /\ UNCHANGED <<winTabs, inactiveWindows, inactiveWindowsSet,
                             tabRelationships>>
      ]_vars

\* a restore of an index past the end of a store that holds a snapshot has
\* returned false although no host call failed
C8_Witness ==
    \E c \in ReactCalls :
        /\ react[c].pc = "done"
        /\ ~react[c].result
        /\ react[c].failed = {}
        /\ inactiveWindowsSet
        /\ Len(inactiveWindows) >= 1
        /\ react[c].inactiveWindowIndex >= Len(inactiveWindows)

\* C9: when the host fails to create the new window, reactivateWindow
\* returns false, writes neither store, creates no tab and adds no
\* relationship edge; the persisted list is the list the call read, with in
\* front of it only what captures put there meanwhile, so the snapshot is
\* still in the store at its position in that list.
C9_WindowFailureNoEffect ==
    [][\A c \in ReactCalls :
         (react[c].pc = "createWindow" /\ "createWindow" \in react'[c].failed) =>
              /\ react'[c].pc = "done"
              /\ ~react'[c].result
              /\ react'[c].created = {}
              /\ ~react'[c].wrote
              /\ ~react'[c].wroteRelationships
              /\ UNCHANGED <<winTabs, inactiveWindows, inactiveWindowsSet,
                             tabRelationships>>
              /\ \E n \in 0..MaxCaptures :
                    /\ n <= Len(inactiveWindows')
                    /\ SubSeq(inactiveWindows', n + 1, Len(inactiveWindows')) =
                           react[c].inactiveWindows
      ]_vars

\* a restore of the second snapshot of the store has returned false after
\* windows.create failed, and the snapshot is still the second of the store
C9_Witness ==
    \E c \in ReactCalls :
        /\ react[c].pc = "done"
        /\ ~react[c].result
        /\ react[c].failed = {"createWindow"}
        /\ react[c].inactiveWindowIndex = 1
        /\ Len(inactiveWindows) = 2
        /\ inactiveWindows[2] = react[c].windowData

\* C10: when the creation of one of the later tabs fails during
\* reactivateWindow (and nothing else fails), the creation of every
\* remaining TabSnapshot is still attempted, the relationship remapping
\* still runs and the snapshot is still removed from the store.
C10_LaterTabFailureTolerated ==
    \A c \in ReactCalls :
        (react[c].pc = "done" /\ react[c].failed = {"createTab"}) =>
            /\ react[c].i = Len(react[c].windowData.tabs)
            /\ react[c].remapped
            /\ react[c].wrote

\* C11: reactivateWindow reports success true whenever the new window was
\* created, even if the creation of individual tabs failed (and no other
\* host call did).
C11_SuccessOnceWindowCreated ==
    \A c \in ReactCalls :
        (/\ react[c].pc = "done"
         /\ react[c].newWindowId # undefined
         /\ react[c].failed \subseteq {"createTab"}) => react[c].result

\* C12: a successful reactivateWindow(i), when the persisted list is still
\* the list the call read, leaves the list with exactly the element at
\* index i removed: one shorter, the snapshots before it unchanged, those
\* after it moved up by one.
C12_RemovesExactlyTheSnapshot ==
    [][\A c \in ReactCalls :
         (/\ react[c].pc = "setInactive"
          /\ react'[c].pc = "done"
          /\ react'[c].result
          /\ inactiveWindows = react[c].stored) =>
              LET i == react[c].inactiveWindowIndex + 1
              IN  /\ inactiveWindowsSet'
                  /\ Len(inactiveWindows') = Len(inactiveWindows) - 1
                  /\ \A k \in 1..(i - 1) : inactiveWindows'[k] = inactiveWindows[k]
                  /\ \A k \in i..Len(inactiveWindows') :
                        inactiveWindows'[k] = inactiveWindows[k + 1]
                  /\ inactiveWindows[i] = react[c].windowData
      ]_vars

\* a restore of the second of two snapshots has returned true and the
\* store holds the other snapshot, which differs from the restored one
C12_Witness ==
    \E c \in ReactCalls :
        /\ react[c].pc = "done"
        /\ react[c].result
        /\ react[c].inactiveWindowIndex = 1
        /\ Len(react[c].stored) = 2
        /\ inactiveWindows = <<react[c].stored[1]>>
        /\ react[c].stored[1] # react[c].windowData

\* ---------------------------------------------------- export and import
\* a snapshot of a window with one pinned tab, captured after EarlierSnapshot
LaterSnapshot ==
    [id |-> 2,
     deactivatedAt |-> 1,
     tabs |-> <<[originalId |-> 3, index |-> 0, pinned |-> TRUE,
                 parentTabId |-> undefined]>>]

\* the storage before a request: never written, emptied by restores, or
\* holding the snapshots of earlier captures, the most recent first
Stores ==
    {[isSet |-> FALSE, list |-> <<>>],
     [isSet |-> TRUE, list |-> <<>>],
     [isSet |-> TRUE, list |-> <<EarlierSnapshot>>],
     [isSet |-> TRUE, list |-> <<LaterSnapshot, EarlierSnapshot>>]}

\* the strings the user imports: nothing, a file that is no JSON, JSON
\* documents of another shape, a document with a window record that has no
\* tabs, and the documents that exportInactiveWindows produces
ImportTexts ==
    {EmptyText, NotJSON, JSONtext(JsonNull), JSONtext(JsonNumber),
     JSONtext(JsonObject([version |-> JsonString])),
     JSONtext(JsonObject([inactiveWindows |-> JsonString])),
     JSONtext(JsonObject([inactiveWindows |-> JsonNull])),
     JSONstringify([inactiveWindows |-> <<[id |-> 2]>>])}
    \cup {ExportDocument(st.isSet, st.list) : st \in Stores}

InitIO ==
    /\ winTabs = [w \in WinIds |-> IF w = 1 THEN <<1>> ELSE <<>>]
    /\ tabRelationships = EmptyRelationships
    /\ \E st \in Stores : inactiveWindows = st.list /\ inactiveWindowsSet = st.isSet
    /\ removed = [t \in TabIds |-> IdleRemoved]
    /\ created = [t \in TabIds |-> IdleCreated]
    /\ deact = [c \in DeactCalls |-> IdleDeact]
    /\ react = [c \in ReactCalls |-> IdleReact]
    /\ events = NoEvents
    /\ importCall = IdleImport
    /\ exportCall = IdleExport
    /\ lastTabId = 1
    /\ lastWindowId = 1
    /\ QueueCacheAtRest

NextIO ==
    \/ ExportStart
    \/ ExportGet
    \/ ExportRespond
    \/ \E jsonData \in ImportTexts : ImportStart(jsonData)
    \/ ImportGet
    \/ ImportSet
    \/ ImportRespond

SpecIO == InitIO /\ [][NextIO]_vars

\* the list the storage holds, empty when the key was never written
PersistedList == IF inactiveWindowsSet THEN inactiveWindows ELSE <<>>

\* the items of the inactiveWindows array of a JSON document
DocumentWindows(jsonData) == jsonData.value.props["inactiveWindows"].items

\* C13: a successful importInactiveWindows leaves the persisted list equal
\* to the previous list followed by the windows of the document in document
\* order, and returns as count the number of windows of the document.
C13_ImportAppends ==
    [][(importCall.pc = "set" /\ importCall'.pc = "done"
            /\ importCall'.result.success) =>
          LET doc == DocumentWindows(importCall.jsonData)
              old == PersistedList
          IN  /\ inactiveWindowsSet'
              /\ Len(inactiveWindows') = Len(old) + Len(doc)
              /\ \A k \in 1..Len(old) : inactiveWindows'[k] = old[k]
              /\ \A k \in 1..Len(doc) :
                    inactiveWindows'[Len(old) + k] = WindowRecord(doc[k])
              /\ importCall'.result.count = Len(doc)
      ]_vars

\* an import of a document with two windows into a store that held one has
\* returned success
C13_Witness ==
    /\ importCall.pc = "done"
    /\ importCall.result.success
    /\ importCall.result.count = 2
    /\ Len(importCall.currentWindows) = 1
    /\ Len(inactiveWindows) = 3
    /\ inactiveWindows[1] # inactiveWindows[2]

\* the string is empty, is no JSON text, or denotes a document whose
\* inactiveWindows field is missing or is no array
BadDocument(jsonData) ==
    \/ jsonData.kind \in {"empty", "garbage"}
    \/ /\ jsonData.kind = "json"
       /\ \/ jsonData.value.type # "object"
          \/ "inactiveWindows" \notin DOMAIN jsonData.value.props
          \/ jsonData.value.props["inactiveWindows"].type # "array"

\* C14: importInactiveWindows given empty input, text that is no valid JSON,
\* or a document whose inactiveWindows field is missing or not an array
\* returns {success: false, message, count: 0} and writes nothing.
C14_BadInputRejected ==
    [][(importCall.pc = "idle" /\ importCall'.pc # "idle"
            /\ BadDocument(importCall'.jsonData)) =>
          /\ importCall'.pc = "done"
          /\ ~importCall'.result.success
          /\ importCall'.result.count = 0
          /\ importCall'.result.message # ""
          /\ ~importCall'.wrote
          /\ UNCHANGED <<inactiveWindows, inactiveWindowsSet>>
      ]_vars

\* a JSON document whose inactiveWindows is a string has been answered with
\* the message for an invalid format, the store holding a snapshot
C14_Witness ==
    /\ importCall.pc = "done"
    /\ importCall.jsonData = JSONtext(JsonObject([inactiveWindows |-> JsonString]))
    /\ importCall.result.message = "Invalid data format"
    /\ Len(inactiveWindows) = 1

\* C15: importInactiveWindows rejects a document whose window records lack
\* required fields (a record with no tabs list): it returns success false
\* and adds none of the records of the document to the store.
C15_MalformedRecordRejected ==
    (/\ importCall.pc = "done"
     /\ ~BadDocument(importCall.jsonData)
     /\ \E i \in DOMAIN DocumentWindows(importCall.jsonData) :
           "tabs" \notin DOMAIN DocumentWindows(importCall.jsonData)[i]) =>
        /\ ~importCall.result.success
        /\ ~importCall.wrote

\* C16: importing into an empty store the document exportInactiveWindows
\* produces for a store S yields a store equal to S: the same snapshots in
\* the same order, with the same tabs, originalId and parentTabId.
C16_ExportImportRoundTrip ==
    [][\A st \in Stores :
         (/\ importCall.pc = "set" /\ importCall'.pc = "done"
          /\ importCall'.result.success
          /\ importCall.currentWindows = <<>>
          /\ PersistedList = <<>>
          /\ importCall.jsonData = ExportDocument(st.isSet, st.list)) =>
             /\ inactiveWindows' = st.list
             /\ importCall'.result.count = Len(st.list)
      ]_vars

\* the document exported for a store of two snapshots, one of them with a
\* parent edge, has been imported into an empty store
C16_Witness ==
    /\ importCall.pc = "done"
    /\ importCall.result.success
    /\ importCall.currentWindows = <<>>
    /\ importCall.jsonData = ExportDocument(TRUE, <<LaterSnapshot, EarlierSnapshot>>)
    /\ inactiveWindows = <<LaterSnapshot, EarlierSnapshot>>

\* C17: for every state of the store, a store that was never written
\* included, the document exportInactiveWindows returns has the three
\* fields inactiveWindows, exportedAt and version.
C17_ExportHasThreeFields ==
    (exportCall.pc = "done" /\ exportCall.success) =>
        {"inactiveWindows", "exportedAt", "version"} \subseteq
            DOMAIN exportCall.data.value.props

\* C18: handling a tab-removed event for an identity that has no entry in
\* tabRelationships leaves the map unchanged and issues no write; the write
\* of a handler that found an entry leaves the identity without entry, so
\* that handling the removal again changes nothing.
C18_ForgetIdempotent ==
    [][\A t \in TabIds :
         /\ (removed[t].pc = "get" /\ removed'[t].pc # "get"
                /\ tabRelationships[t] = undefined) =>
               /\ removed'[t] = IdleRemoved
               /\ tabRelationships' = tabRelationships
         /\ (removed[t].pc = "get" /\ removed'[t].pc = "set") =>
               /\ tabRelationships[t] # undefined
               /\ removed'[t].relationships[t] = undefined
               /\ \A u \in TabIds \ {t} :
                     removed'[t].relationships[u] = tabRelationships[u]
         /\ (removed[t].pc = "set" /\ removed'[t].pc = "idle") =>
               tabRelationships'[t] = undefined
      ]_vars

\* a tab without entry has closed while the map holds the entry of another
\* tab, and its listener has its storage.get in flight
C18_Witness ==
    \E t \in TabIds :
        /\ removed[t].pc = "get"
        /\ tabRelationships[t] = undefined
        /\ \E u \in TabIds : tabRelationships[u] # undefined

\* ------------------------------------------------- tabs closing together
\* a window of three tabs, the second opened from the first and the third
\* from the first or the second; no tab-created listener is running
InitClose ==
    /\ \E p \in {1, 2} :
          tabRelationships = [t \in TabIds |->
                                 IF t = 2 THEN 1 ELSE IF t = 3 THEN p ELSE undefined]
    /\ \E w \in WinIds : winTabs = [x \in WinIds |-> IF x = w THEN <<1, 2, 3>> ELSE <<>>]
    /\ \/ inactiveWindows = <<>> /\ inactiveWindowsSet = FALSE
       \/ inactiveWindows = <<EarlierSnapshot>> /\ inactiveWindowsSet = TRUE
    /\ removed = [t \in TabIds |-> IdleRemoved]
    /\ created = [t \in TabIds |-> IdleCreated]
    /\ deact = [c \in DeactCalls |-> IdleDeact]
    /\ react = [c \in ReactCalls |-> IdleReact]
    /\ events = NoEvents
    /\ importCall = IdleImport
    /\ exportCall = IdleExport
    /\ lastTabId = 3
    /\ lastWindowId \in WinIds
    /\ QueueCacheAtRest

\* the user closes tabs and deactivates the window; the listeners run
NextClose ==
    \/ \E t \in TabIds : CloseTab(t)
    \/ \E t \in TabIds : RemovedGet(t)
    \/ \E t \in TabIds : RemovedSet(t)
    \/ \E c \in DeactCalls, w \in WinIds : DeactivateStart(c, w)
    \/ \E c \in DeactCalls : DeactQuery(c)
    \/ \E c \in DeactCalls : DeactGetRelationships(c)
    \/ \E c \in DeactCalls : DeactGetInactive(c)
    \/ \E c \in DeactCalls : DeactSetInactive(c)
    \/ \E c \in DeactCalls : DeactRemove(c)
    \/ \E c \in DeactCalls : DeactRespond(c)

SpecClose == InitClose /\ [][NextClose]_vars

\* C19: once every tab-removed handler has finished, the Relationship Store
\* has no entry whose child is one of the closed tabs, also when the
\* handlers of the tabs of a window destroyed by capture interleave.
C19_ClosedTabsForgotten ==
    (NoHandlerPending /\ NoneInFlight) =>
        \A t \in TabIds \ LiveTabs : tabRelationships[t] = undefined

\* C20: a tab-created event with an opener writes the map it read with the
\* entry child -> opener put under the child (whatever was stored there),
\* the other entries as read; a tab created without opener starts no
\* handler and leaves the store unchanged; a child has one parent.
C20_CreatedRecordsOneEntry ==
    [][/\ \A t \in TabIds :
            /\ (created[t].pc = "set" /\ created'[t].pc = "idle") =>
                  /\ created[t].openerTabId # undefined
                  /\ tabRelationships'[t] = created[t].openerTabId
                  /\ \A u \in TabIds \ {t} :
                        tabRelationships'[u] = created[t].relationships[u]
            /\ (created[t].pc = "get" /\ created'[t].pc = "set") =>
                  \A u \in TabIds \ {t} :
                        created'[t].relationships[u] = tabRelationships[u]
            /\ created'[t].pc # "idle" => created'[t].openerTabId \in TabIds
       /\ (LiveTabs' # LiveTabs /\ created' = created) =>
             tabRelationships' = tabRelationships
      ]_vars

\* the listener of a tab opened from another tab is writing its entry over
\* an entry with another parent that an earlier holder of the identity left
C20_Witness ==
    \E t \in TabIds :
        /\ created[t].pc = "set"
        /\ tabRelationships[t] # undefined
        /\ tabRelationships[t] # created[t].openerTabId
        /\ created[t].relationships[t] = created[t].openerTabId

\* ------------------------------------------------------ queue cache claims
\* a browser window with two tabs that show no video; nothing is cached
InitQ ==
    /\ winTabs = [w \in WinIds |-> IF w = 1 THEN <<1, 2>> ELSE <<>>]
    /\ tabRelationships = EmptyRelationships
    /\ inactiveWindows = <<>>
    /\ inactiveWindowsSet = FALSE
    /\ removed = [t \in TabIds |-> IdleRemoved]
    /\ created = [t \in TabIds |-> IdleCreated]
    /\ deact = [c \in DeactCalls |-> IdleDeact]
    /\ react = [c \in ReactCalls |-> IdleReact]
    /\ events = NoEvents
    /\ importCall = IdleImport
    /\ exportCall = IdleExport
    /\ lastTabId = 2
    /\ lastWindowId = 1
    /\ QueueCacheAtRest

\* pages load in the tabs, the user closes tabs, a page asks for the tabs;
\* the listeners' callbacks run in any order
NextQ ==
    \/ \E t \in TabIds, url \in NavUrls : Navigate(t, url)
    \/ \E u \in UpdatedCalls : UpdatedQuery(u)
    \/ \E u \in UpdatedCalls : UpdatedScript(u)
    \/ \E u \in UpdatedCalls : UpdatedGet(u)
    \/ \E u \in UpdatedCalls : UpdatedSet(u)
    \/ \E t \in TabIds : CloseQueueTab(t)
    \/ \E t \in TabIds : RemovedQueueGet(t)
    \/ \E t \in TabIds : RemovedQueueSet(t)
    \/ GetTabsStart
    \/ GetTabsQuery
    \/ GetTabsGet
    \/ GetTabsRespond

SpecQ == InitQ /\ [][NextQ]_vars

\* the keys a capture for the tab of handler u writes
CaptureKeys(u) ==
    {SessionKey(updated[u].tab.id),
     CanonicalKey(extractYouTubeQueueFromUrl(updated[u].tab.url).baseUrl)}

\* C21: when a completed navigation on a queue-bearing URL yields a
\* non-empty list, the handler's write leaves the cache holding that list
\* under tab-<tabId> and under the canonical key of the tab's URL, and the
\* map it writes has every other key as the handler read it.
C21_CaptureWritesBothKeys ==
    [][\A u \in UpdatedCalls :
         /\ (updated[u].pc = "script" /\ updated'[u].pc = "get") =>
               /\ Len(updated'[u].queueData.videos) > 0
               /\ extractYouTubeQueueFromUrl(updated[u].tab.url) # null
         /\ (updated[u].pc = "get" /\ updated'[u].pc = "set") =>
               /\ DOMAIN updated'[u].youtubeQueues =
                     DOMAIN youtubeQueues \cup CaptureKeys(u)
               /\ \A k \in DOMAIN youtubeQueues \ CaptureKeys(u) :
                     updated'[u].youtubeQueues[k] = youtubeQueues[k]
         /\ (updated[u].pc = "set" /\ updated'[u].pc = "idle") =>
               /\ CaptureKeys(u) \subseteq DOMAIN youtubeQueues'
               /\ \A k \in CaptureKeys(u) :
                     youtubeQueues'[k].videos = updated[u].queueData.videos
               /\ youtubeQueues' = updated[u].youtubeQueues
      ]_vars

\* a capture is about to write while the cache holds the record of another
\* playlist, which the map it writes holds too
C21_Witness ==
    \E u \in UpdatedCalls :
        /\ updated[u].pc = "set"
        /\ \E k \in DOMAIN youtubeQueues :
              /\ k \notin CaptureKeys(u)
              /\ k \in DOMAIN updated[u].youtubeQueues

\* C22: when the extraction gives an empty list or no result, or fails
\* (the tab is closed or has navigated away), the handler ends there: the
\* cache is left as it is and the handler is at rest, no error escaping;
\* only a non-empty list gets as far as the storage.
C22_FailedExtractionNoWrite ==
    [][\A u \in UpdatedCalls :
         /\ (updated[u].pc \in {"query", "script"} /\ updated'[u].pc = "idle") =>
               /\ youtubeQueues' = youtubeQueues
               /\ updated'[u] = IdleUpdated
         /\ updated'[u].pc \in {"get", "set"} =>
               /\ updated'[u].queueData # null
               /\ Len(updated'[u].queueData.videos) > 0
      ]_vars

\* one page with a playlist finished loading, its handler has ended and
\* nothing is cached
C22_Witness ==
    /\ events.navigations = 1
    /\ \E t \in LiveTabs : extractYouTubeQueueFromUrl(tabUrl[t]) # null
    /\ \A u \in UpdatedCalls : updated[u].pc = "idle"
    /\ youtubeQueues = EmptyQueues

\* the canonical key of a URL is in the map
HasCanonical(url, queues) ==
    /\ extractYouTubeQueueFromUrl(url) # null
    /\ CanonicalKey(extractYouTubeQueueFromUrl(url).baseUrl) \in DOMAIN queues

\* C23: the answer of getTabs, for each tab on a watch URL: if the key
\* tab-<id> is in the cache the tab carries that record's items and no
\* restored flag; otherwise, if the canonical key of the tab's URL is in the
\* cache, it carries that record's items and the restored flag; otherwise it
\* carries no queue.  A tab on another URL carries no queue.
C23_LookupOrder ==
    [][(getTabs.pc = "get" /\ getTabs'.pc = "done") =>
         /\ DOMAIN getTabs'.tabs = DOMAIN getTabs.tabs
         /\ \A i \in DOMAIN getTabs.tabs :
               LET tab == getTabs.tabs[i]
                   answer == getTabs'.tabs[i]
               IN  /\ answer.id = tab.id
                   /\ IF isYouTubeWatchUrl(tab.url) /\ SessionKey(tab.id) \in DOMAIN youtubeQueues
                      THEN /\ answer.attached
                           /\ answer.youtubeQueue = youtubeQueues[SessionKey(tab.id)].videos
                           /\ ~answer.hasRestoredQueue
                      ELSE IF isYouTubeWatchUrl(tab.url) /\ HasCanonical(tab.url, youtubeQueues)
                      THEN /\ answer.attached
                           /\ answer.youtubeQueue =
                                 youtubeQueues[CanonicalKey(
                                     extractYouTubeQueueFromUrl(tab.url).baseUrl)].videos
                           /\ answer.hasRestoredQueue
                      ELSE /\ ~answer.attached
                           /\ ~answer.hasRestoredQueue
      ]_vars

\* an answer with a tab whose queue came from its session key, while the
\* canonical key of its URL was cached too, and a tab whose queue came from
\* the canonical key alone
C23_Witness ==
    /\ getTabs.pc = "done"
    /\ \E i, j \in DOMAIN getTabs.tabs :
          /\ getTabs.tabs[i].attached
          /\ ~getTabs.tabs[i].hasRestoredQueue
          /\ HasCanonical(getTabs.tabs[i].url, youtubeQueues)
          /\ SessionKey(getTabs.tabs[i].id) \in DOMAIN youtubeQueues
          /\ getTabs.tabs[j].attached
          /\ getTabs.tabs[j].hasRestoredQueue
          /\ SessionKey(getTabs.tabs[j].id) \notin DOMAIN youtubeQueues

\* the map the tab-removed handler of tab t is to write, given the map read
Migrated(t, queues) ==
    [k \in (DOMAIN queues \cup {CanonicalKey(queues[SessionKey(t)].baseUrl)})
           \ {SessionKey(t)} |->
        IF k = CanonicalKey(queues[SessionKey(t)].baseUrl)
        THEN [videos |-> queues[SessionKey(t)].videos]
        ELSE queues[k]]

\* C24: the tab-removed handler of a tab with a session-keyed record writes
\* once, a map that holds that record's items under the canonical key of
\* the URL it was captured on, whatever was there, that has no session key
\* of the tab, and that has every other key as read; for a tab without a
\* session-keyed record the handler ends without writing.
C24_MigrateOnClose ==
    [][\A t \in TabIds :
         /\ (removedQueue[t].pc = "get" /\ removedQueue'[t].pc = "set") =>
               /\ SessionKey(t) \in DOMAIN youtubeQueues
               /\ youtubeQueues[SessionKey(t)].baseUrl =
                     extractYouTubeQueueFromUrl(youtubeQueues[SessionKey(t)].url).baseUrl
               /\ removedQueue'[t].youtubeQueues = Migrated(t, youtubeQueues)
               /\ youtubeQueues' = youtubeQueues
         /\ (removedQueue[t].pc = "get" /\ removedQueue'[t].pc = "idle") =>
               /\ SessionKey(t) \notin DOMAIN youtubeQueues
               /\ youtubeQueues' = youtubeQueues
         /\ (removedQueue[t].pc = "set" /\ removedQueue'[t].pc = "idle") =>
               youtubeQueues' = removedQueue[t].youtubeQueues
         /\ (removedQueue[t].pc = "idle" /\ removedQueue'[t].pc # "idle") =>
               /\ removedQueue'[t].pc = "get"
               /\ youtubeQueues' = youtubeQueues
      ]_vars

\* a tab-removed handler is about to write a map whose canonical record
\* replaces one with other items
C24_Witness ==
    \E t \in TabIds, k \in DOMAIN youtubeQueues :
        /\ removedQueue[t].pc = "set"
        /\ k \in DOMAIN removedQueue[t].youtubeQueues
        /\ k.kind = "url"
        /\ removedQueue[t].youtubeQueues[k].videos # youtubeQueues[k].videos
        /\ SessionKey(t) \in DOMAIN youtubeQueues

\* the URLs the program holds: those the tabs show and those the handlers
\* in flight were started with
UrlsInUse ==
    {tabUrl[t] : t \in TabIds} \cup {updated[u].tab.url : u \in UpdatedCalls}

\* C25: a watch URL in use and any URL that differs from it in the index
\* parameter only (another value, or none) get the same baseUrl from
\* extractYouTubeQueueFromUrl when v and list are there.
C25_IndexDoesNotMatter ==
    \A url \in UrlsInUse, index \in Indexes \cup {NoParam} :
        (isYouTubeWatchUrl(url) /\ url.v # NoParam /\ url.list # NoParam) =>
            /\ extractYouTubeQueueFromUrl(url) # null
            /\ extractYouTubeQueueFromUrl([url EXCEPT !.index = index]) # null
            /\ extractYouTubeQueueFromUrl([url EXCEPT !.index = index]).baseUrl =
                  extractYouTubeQueueFromUrl(url).baseUrl

\* two captures in flight for URLs that differ in the index only, heading
\* for the same canonical key
C25_Witness ==
    \E u1, u2 \in UpdatedCalls :
        /\ updated[u1].pc = "get"
        /\ updated[u2].pc = "get"
        /\ updated[u1].tab.url.index # updated[u2].tab.url.index
        /\ [updated[u1].tab.url EXCEPT !.index = NoParam] =
              [updated[u2].tab.url EXCEPT !.index = NoParam]
        /\ updated[u1].queueData.baseUrl = updated[u2].queueData.baseUrl

\* C26: extractYouTubeQueueFromUrl gives null for a URL without v or
\* without list, and a page load on such a URL starts no extraction and so
\* no cache write; with both there, the baseUrl is the same for every URL
\* with these two values, whatever the rest of the URL.
C26_KeyFromVAndListOnly ==
    [][/\ \A url \in UrlsInUse' :
            /\ (url.v = NoParam \/ url.list = NoParam) =>
                  extractYouTubeQueueFromUrl(url) = null
            /\ (isYouTubeWatchUrl(url) /\ url.v # NoParam /\ url.list # NoParam) =>
                  \A other \in Urls :
                     (isYouTubeWatchUrl(other) /\ other.v = url.v
                                               /\ other.list = url.list) =>
                        /\ extractYouTubeQueueFromUrl(other) # null
                        /\ extractYouTubeQueueFromUrl(other).baseUrl =
                              extractYouTubeQueueFromUrl(url).baseUrl
       /\ \A t \in TabIds :
            (tabUrl'[t] # tabUrl[t]
                /\ (tabUrl'[t].v = NoParam \/ tabUrl'[t].list = NoParam)) =>
               /\ updated' = updated
               /\ youtubeQueues' = youtubeQueues
       /\ \A u \in UpdatedCalls :
            updated'[u].pc # "idle" =>
               /\ updated'[u].tab.url.v # NoParam
               /\ updated'[u].tab.url.list # NoParam
      ]_vars

\* a page on a watch URL without list has finished loading and no handler
\* is in flight for it
C26_Witness ==
    \E t \in LiveTabs :
        /\ isYouTubeWatchUrl(tabUrl[t])
        /\ tabUrl[t].v # NoParam
        /\ tabUrl[t].list = NoParam
        /\ \A u \in UpdatedCalls : updated[u].tab.id # t

\* ------------------------------------------------------------- scenario D
Index3Url == Url(WatchHost, "X", "Y", "3")

Index9Url == Url(WatchHost, "X", "Y", "9")

\* tab 1 finishes loading watch?v=X&list=Y&index=3
CaptureOnIndex3 ==
    /\ tabUrl[1] = BlankUrl
    /\ youtubeQueues = EmptyQueues
    /\ Navigate(1, Index3Url)

\* tab 1 is closed once its queue is cached
CloseCaptured ==
    /\ SessionKey(1) \in DOMAIN youtubeQueues
    /\ \A u \in UpdatedCalls : updated[u].pc = "idle"
    /\ CloseQueueTab(1)

\* later, when the tab-removed handler of tab 1 has finished, tab 2 finishes
\* loading watch?v=X&list=Y&index=9
LaterTabNavigates ==
    /\ 1 \notin LiveTabs
    /\ \A t \in TabIds : removedQueue[t].pc = "idle"
    /\ tabUrl[1] = Index3Url
    /\ tabUrl[2] = BlankUrl
    /\ Navigate(2, Index9Url)


NextD ==
    \/ CaptureOnIndex3
    \/ CloseCaptured
    \/ LaterTabNavigates
    \/ GetTabsStart
    \/ \E u \in UpdatedCalls : UpdatedQuery(u)
    \/ \E u \in UpdatedCalls : UpdatedScript(u)
    \/ \E u \in UpdatedCalls : UpdatedGet(u)
    \/ \E u \in UpdatedCalls : UpdatedSet(u)
    \/ \E t \in TabIds : RemovedQueueGet(t)
    \/ \E t \in TabIds : RemovedQueueSet(t)
    \/ GetTabsQuery
    \/ GetTabsGet
    \/ GetTabsRespond

\* the host runs every callback it owes; what the user does is up to the user
HandlersRun ==
    /\ WF_vars(\E u \in UpdatedCalls : UpdatedQuery(u))
    /\ WF_vars(\E u \in UpdatedCalls : UpdatedScript(u))
    /\ WF_vars(\E u \in UpdatedCalls : UpdatedGet(u))
    /\ WF_vars(\E u \in UpdatedCalls : UpdatedSet(u))
    /\ WF_vars(\E t \in TabIds : RemovedQueueGet(t))
    /\ WF_vars(\E t \in TabIds : RemovedQueueSet(t))
    /\ WF_vars(GetTabsQuery)
    /\ WF_vars(GetTabsGet)
    /\ WF_vars(GetTabsRespond)

SpecD == InitQ /\ [][NextD]_vars /\ HandlersRun

\* the lists a capture can hold
CapturedLists == {SubSeq(PageVideos(Index3Url), 1, n) : n \in 1..Len(PageVideos(Index3Url))}

\* the answer of getTabs is there and lists tab 2 on the index=9 URL
AnswerForLaterTab(i) ==
    /\ getTabs.pc = "done"
    /\ i \in DOMAIN getTabs.tabs
    /\ getTabs.tabs[i].id = 2
    /\ getTabs.tabs[i].url = Index9Url

\* C27 as stated: the list captured for tab 1 on index=3 is what a lookup
\* for tab 2 on index=9 returns after tab 1 closed, with the restored flag.
C27_Original ==
    \A list \in CapturedLists :
        [](( /\ SessionKey(1) \in DOMAIN youtubeQueues
             /\ youtubeQueues[SessionKey(1)].videos = list ) =>
           [](\A i \in 1..MaxTab :
                 AnswerForLaterTab(i) =>
                    /\ getTabs.tabs[i].attached
                    /\ getTabs.tabs[i].youtubeQueue = list
                    /\ getTabs.tabs[i].hasRestoredQueue))

\* C27, amended: the same, for a lookup made while the cache holds no
\* session record of tab 2, that is before a capture for tab 2 is persisted.
C27_SurvivesClosure ==
    \A list \in CapturedLists :
        [](( /\ SessionKey(1) \in DOMAIN youtubeQueues
             /\ youtubeQueues[SessionKey(1)].videos = list ) =>
           [](\A i \in 1..MaxTab :
                 (AnswerForLaterTab(i) /\ SessionKey(2) \notin DOMAIN youtubeQueues) =>
                    /\ getTabs.tabs[i].attached
                    /\ getTabs.tabs[i].youtubeQueue = list
                    /\ getTabs.tabs[i].hasRestoredQueue))

\* tab 1 is closed and its session record gone; the answer gives tab 2 the
\* list from the canonical key, marked as restored
C27_Witness ==
    \E i \in 1..MaxTab :
        /\ AnswerForLaterTab(i)
        /\ 1 \notin LiveTabs
        /\ DOMAIN youtubeQueues = {CanonicalKey(Url(WatchHost, "X", "Y", NoParam))}
        /\ getTabs.tabs[i].attached
        /\ getTabs.tabs[i].hasRestoredQueue
        /\ getTabs.tabs[i].youtubeQueue = youtubeQueues[CanonicalKey(Url(WatchHost, "X", "Y", NoParam))].videos

\* C28: no step removes a canonical key from the cache, however the
\* capture, tab-removed and lookup handlers interleave.
C28_CanonicalKeysPersist ==
    [][\A k \in DOMAIN youtubeQueues :
          k.kind = "url" => k \in DOMAIN youtubeQueues'
      ]_vars

\* ------------------------------------------------------------- store order
\* the snapshot has a time of capture
HasTime(windowData) == "deactivatedAt" \in DOMAIN windowData

\* C29: in every state the stored list is most-recent-first: of two
\* snapshots with a time of capture the one that comes first in the list is
\* not the older one.
C29_MostRecentFirst ==
    \A i, j \in DOMAIN inactiveWindows :
        (i < j /\ HasTime(inactiveWindows[i]) /\ HasTime(inactiveWindows[j])) =>
            inactiveWindows[i].deactivatedAt >= inactiveWindows[j].deactivatedAt

\* -------------------------------------------------- requests and responses
\* the texts the page sends to importInactiveWindows here: none, one that is
\* not JSON, and an export of a store with one snapshot
RequestTexts == {EmptyText, NotJSON, ExportDocument(TRUE, <<EarlierSnapshot>>)}

\* no import or export is in progress
IoAtRest == importCall.pc = "idle" /\ exportCall.pc = "idle"

\* no capture or restore is in progress and no listener has work left
WindowsAtRest == NoneInFlight /\ NoHandlerPending

\* the four kinds of request and the callbacks of their handlers; the tabs
\* of a window that a capture destroys fire their tab-removed listeners.
\* The page asks for a capture or a restore while no import or export is in
\* progress, and the other way round
NextR ==
    \/ \E c \in DeactCalls, w \in WinIds : IoAtRest /\ DeactivateStart(c, w)
    \/ \E c \in DeactCalls : DeactQuery(c)
    \/ \E c \in DeactCalls : DeactGetRelationships(c)
    \/ \E c \in DeactCalls : DeactGetInactive(c)
    \/ \E c \in DeactCalls : DeactSetInactive(c)
    \/ \E c \in DeactCalls : DeactRemove(c)
    \/ \E c \in DeactCalls : DeactRespond(c)
    \/ \E t \in TabIds : RemovedGet(t)
    \/ \E t \in TabIds : RemovedSet(t)
    \/ \E c \in ReactCalls, i \in 0..(MaxCaptures + 1) : IoAtRest /\ ReactivateStart(c, i)
    \/ \E c \in ReactCalls : ReactGetInactive(c)
    \/ \E c \in ReactCalls : ReactCreateWindow(c)
    \/ \E c \in ReactCalls : ReactQueryInitial(c)
    \/ \E c \in ReactCalls : ReactCreateTab(c)
    \/ \E c \in ReactCalls : ReactUpdatePinned(c)
    \/ \E c \in ReactCalls : ReactGetRelationships(c)
    \/ \E c \in ReactCalls : ReactSetRelationships(c)
    \/ \E c \in ReactCalls : ReactSetInactive(c)
    \/ \E c \in ReactCalls : ReactRespond(c)
    \/ WindowsAtRest /\ ExportStart
    \/ ExportGet
    \/ ExportRespond
    \/ \E jsonData \in RequestTexts : WindowsAtRest /\ ImportStart(jsonData)
    \/ ImportGet
    \/ ImportSet
    \/ ImportRespond

\* the host settles every call it was given and runs every callback it
\* owes; whether and when the user sends a request is up to the user
CallbacksRun ==
    /\ WF_vars(\E c \in DeactCalls : DeactQuery(c))
    /\ WF_vars(\E c \in DeactCalls : DeactGetRelationships(c))
    /\ WF_vars(\E c \in DeactCalls : DeactGetInactive(c))
    /\ WF_vars(\E c \in DeactCalls : DeactSetInactive(c))
    /\ WF_vars(\E c \in DeactCalls : DeactRemove(c))
    /\ WF_vars(\E c \in DeactCalls : DeactRespond(c))
    /\ WF_vars(\E t \in TabIds : RemovedGet(t))
    /\ WF_vars(\E t \in TabIds : RemovedSet(t))
    /\ WF_vars(\E c \in ReactCalls : ReactGetInactive(c))
    /\ WF_vars(\E c \in ReactCalls : ReactCreateWindow(c))
    /\ WF_vars(\E c \in ReactCalls : ReactQueryInitial(c))
    /\ WF_vars(\E c \in ReactCalls : ReactCreateTab(c))
    /\ WF_vars(\E c \in ReactCalls : ReactUpdatePinned(c))
    /\ WF_vars(\E c \in ReactCalls : ReactGetRelationships(c))
    /\ WF_vars(\E c \in ReactCalls : ReactSetRelationships(c))
    /\ WF_vars(\E c \in ReactCalls : ReactSetInactive(c))
    /\ WF_vars(\E c \in ReactCalls : ReactRespond(c))
    /\ WF_vars(ExportGet)
    /\ WF_vars(ExportRespond)
    /\ WF_vars(ImportGet)
    /\ WF_vars(ImportSet)
    /\ WF_vars(ImportRespond)

SpecR == Init /\ [][NextR]_vars /\ CallbacksRun

\* the host calls of reactivateWindow whose failure ends the restore; a
\* failure inside restoreTabRelationships is caught there (lines 1888-1890),
\* and "createTab" also marks a tab that was created without an id
AbortingCalls == {"getInactive", "createWindow", "queryInitial", "updatePinned",
                  "setInactive"}

\* the answer of a finished call says success false when one of its host
\* calls failed; an answer of success true comes from a call that persisted
\* its result (a restore also went through all the tabs, an export made its
\* document)
FailureIsReported ==
    /\ \A c \in DeactCalls :
          (deact[c].pc = "done" /\ deact[c].failed # {}) => ~deact[c].result
    /\ \A c \in ReactCalls :
          /\ (react[c].pc = "done" /\ react[c].failed \cap AbortingCalls # {}) =>
                ~react[c].result
          /\ (react[c].pc = "done" /\ react[c].result) =>
                /\ react[c].wrote
                /\ react[c].i = Len(react[c].windowData.tabs)
    /\ (importCall.pc = "done" /\ importCall.failed # {}) => ~importCall.result.success
    /\ (importCall.pc = "done" /\ importCall.result.success) => importCall.wrote
    /\ (exportCall.pc = "done" /\ exportCall.data = EmptyText) => ~exportCall.success

\* a call in progress ends by the step that answers it, and by no other
OneResponse ==
    /\ \A c \in DeactCalls :
          (deact[c].pc # "idle" /\ deact'[c].pc = "idle") => deact[c].pc = "done"
    /\ \A c \in DeactCalls : deact[c].pc = "done" => deact'[c].pc \in {"done", "idle"}
    /\ \A c \in ReactCalls :
          (react[c].pc # "idle" /\ react'[c].pc = "idle") => react[c].pc = "done"
    /\ \A c \in ReactCalls : react[c].pc = "done" => react'[c].pc \in {"done", "idle"}
    /\ (importCall.pc # "idle" /\ importCall'.pc = "idle") => importCall.pc = "done"
    /\ importCall.pc = "done" => importCall'.pc \in {"done", "idle"}
    /\ (exportCall.pc # "idle" /\ exportCall'.pc = "idle") => exportCall.pc = "done"
    /\ exportCall.pc = "done" => exportCall'.pc \in {"done", "idle"}

\* C30: every deactivateWindow, reactivateWindow, exportInactiveWindows and
\* importInactiveWindows request is answered in the end, by one response,
\* and the response of a call one of whose host calls failed says success
\* false.
C30_EveryRequestAnswered ==
    /\ \A c \in DeactCalls : (deact[c].pc # "idle") ~> (deact[c].pc = "idle")
    /\ \A c \in ReactCalls : (react[c].pc # "idle") ~> (react[c].pc = "idle")
    /\ (importCall.pc # "idle") ~> (importCall.pc = "idle")
    /\ (exportCall.pc # "idle") ~> (exportCall.pc = "idle")
    /\ [][OneResponse]_vars
    /\ []FailureIsReported

\* an import whose storage write failed is about to be answered with
\* success false, after a capture was answered
C30_Witness ==
    /\ importCall.pc = "done"
    /\ importCall.failed = {"set"}
    /\ ~importCall.result.success
    /\ events.captures > 0

\* ------------------------------------------------ two concurrent captures
\* the popups of two windows send deactivateWindow at the same time: the
\* message listener has started both calls, each is at its first await;
\* window 1 has tab 1, window 2 has tab 2 and tab 3 opened from it
BothCalls == {"d1", "d2"}

CallWindow == [c \in BothCalls |-> IF c = "d1" THEN 1 ELSE 2]

InitTwo ==
    /\ winTabs = [w \in WinIds |-> IF w = 1 THEN <<1>>
                                     ELSE IF w = 2 THEN <<2, 3>> ELSE <<>>]
    /\ tabRelationships = [EmptyRelationships EXCEPT ![3] = 2]
    /\ \/ inactiveWindows = <<>> /\ inactiveWindowsSet = FALSE
       \/ inactiveWindows = <<EarlierSnapshot>> /\ inactiveWindowsSet = TRUE
    /\ removed = [t \in TabIds |-> IdleRemoved]
    /\ created = [t \in TabIds |-> IdleCreated]
    /\ deact = [c \in BothCalls |-> [IdleDeact EXCEPT !.pc = "query",
                                                      !.windowId = CallWindow[c]]]
    /\ react = [c \in ReactCalls |-> IdleReact]
    /\ events = [NoEvents EXCEPT !.captures = 2]
    /\ importCall = IdleImport
    /\ exportCall = IdleExport
    /\ lastTabId = 3
    /\ lastWindowId = 2
    /\ QueueCacheAtRest

NextTwo ==
    \/ \E c \in BothCalls : DeactQuery(c)
    \/ \E c \in BothCalls : DeactGetRelationships(c)
    \/ \E c \in BothCalls : DeactGetInactive(c)
    \/ \E c \in BothCalls : DeactSetInactive(c)
    \/ \E c \in BothCalls : DeactRemove(c)
    \/ \E c \in BothCalls : DeactRespond(c)
    \/ \E t \in TabIds : RemovedGet(t)
    \/ \E t \in TabIds : RemovedSet(t)

SpecTwo == InitTwo /\ [][NextTwo]_vars

\* the store holds the snapshot that one of the two calls took of window w
HasSnapshotOf(w) ==
    \E i \in 1..Len(inactiveWindows) :
        /\ inactiveWindows[i].id = w
        /\ inactiveWindows[i].deactivatedAt > 0

\* C31: two concurrent deactivateWindow calls on different windows can
\* interleave so that both windows are destroyed while the store gains only
\* one of the two snapshots: the write of a call replaces the whole list by
\* the list that call read with its own snapshot in front, whatever another
\* call has written since the read
C31_WriteReplacesByOwnRead ==
    [][\A c \in BothCalls :
          (deact[c].pc = "setInactive" /\ deact'[c].pc = "remove")
              => inactiveWindows' = Unshift(deact[c].inactiveWindows,
                                             deact[c].windowData)]_vars

\* both windows are destroyed and the snapshot of one of them is not stored
C31_Witness ==
    /\ \A c \in BothCalls : winTabs[CallWindow[c]] = <<>>
    /\ \E c \in BothCalls : ~HasSnapshotOf(CallWindow[c])
    /\ \E c \in BothCalls : HasSnapshotOf(CallWindow[c])
    /\ \A c \in BothCalls : deact[c].failed = {}

\* C32: a snapshot leaves the store only through a successful restore of that
\* same snapshot: the write that ends a restore keeps every snapshot stored
\* at that moment other than the one the call restored, also one that a
\* capture persisted while the restore was in flight
C32_RestoreRemovesOnlyItsSnapshot ==
    [][\A c \in ReactCalls :
          (react[c].pc = "setInactive" /\ react'[c].pc = "done" /\ react'[c].wrote)
              => \A i \in 1..Len(inactiveWindows) :
                     inactiveWindows[i] # react[c].windowData
                         => inactiveWindows[i] \in Range(inactiveWindows')]_vars

\* C33: the race between a tab-removed event and an in-flight extraction
\* for the same tab is benign: once the handlers have finished, the cache
\* has no session key tab-<id> for a closed tab
C33_NoSessionKeyOfClosedTab ==
    (/\ \A u \in UpdatedCalls : updated[u].pc = "idle"
     /\ \A t \in TabIds : removedQueue[t].pc = "idle")
        => \A t \in TabIds \ LiveTabs : SessionKey(t) \notin DOMAIN youtubeQueues

\* C34: a restore never leaves a snapshot both restored and stored: when
\* reactivateWindow ends, either it returned true and the snapshot is gone
\* from the store, or it returned false and no window or tab created by the
\* call is left live
C34_RestoredOrStored ==
    \A c \in ReactCalls :
        react[c].pc = "done" =>
            \/ /\ react[c].result
               /\ react[c].windowData \notin Range(inactiveWindows)
            \/ /\ ~react[c].result
               /\ react[c].created \cap LiveTabs = {}
               /\ react[c].newWindowId \notin LiveWins

\* C35: whenever deactivateWindow reports false, the persisted list is the
\* same as before the call: a capture that did not succeed leaves no
\* snapshot behind, also when the failing step is windows.remove
C35_FailedCaptureLeavesNoSnapshot ==
    \A c \in DeactCalls :
        (deact[c].pc = "done" /\ ~deact[c].result) =>
            deact[c].windowData \notin Range(inactiveWindows)

\* the storage calls of restoreTabRelationships
RelationshipCalls == {"getRelationships", "setRelationships"}

\* C36: a storage failure inside restoreTabRelationships does not abort the
\* restore: the step in which the read or the write fails persists no edge
\* and leads to the final write of reactivateWindow, and that write, when it
\* succeeds, removes the snapshot from the list the call read and the call
\* returns true
C36_RelationshipFailureSwallowed ==
    [][\A c \in ReactCalls :
         /\ (/\ react[c].pc \in RelationshipCalls
             /\ react'[c].failed \cap RelationshipCalls # {})
               => /\ react'[c].pc = "setInactive"
                  /\ ~react'[c].wroteRelationships
                  /\ tabRelationships' = tabRelationships
         /\ (/\ react[c].pc = "setInactive"
             /\ react[c].failed \cap RelationshipCalls # {}
             /\ react'[c].wrote)
               => /\ react'[c].pc = "done"
                  /\ react'[c].result
                  /\ inactiveWindows' = Splice(react[c].stored,
                                               react[c].inactiveWindowIndex)
      ]_vars

\* a restore has returned true although the write of the remapped
\* relationships failed; the snapshot it restored is no longer stored
C36_Witness ==
    \E c \in ReactCalls :
        /\ react[c].pc = "done"
        /\ react[c].result
        /\ "setRelationships" \in react[c].failed
        /\ react[c].relationships # react[c].tabRelationships
        /\ tabRelationships = react[c].tabRelationships
        /\ react[c].windowData \notin Range(inactiveWindows)

\* ------------------------------------------------- the inactive-window list
\* the comparator of renderInactiveWindows (tab-manager.js 236): negative
\* when a is displayed before b
compareDeactivatedAt(a, b) == b.deactivatedAt - a.deactivatedAt

RECURSIVE sortedWindows(_)
\* [...inactiveWindows].sort(compareDeactivatedAt): the stable sort of the
\* list, newest first; snapshots of the same time keep their stored order
sortedWindows(list) ==
    IF list = <<>> THEN <<>>
    ELSE LET front == sortedWindows(SubSeq(list, 1, Len(list) - 1))
             last == list[Len(list)]
             before == Cardinality({i \in DOMAIN front :
                                      compareDeactivatedAt(front[i], last) <= 0})
         IN  SubSeq(front, 1, before) \o <<last>>
                 \o SubSeq(front, before + 1, Len(front))

\* C37: the windowIndex that the list sends for a displayed entry (its
\* position in the sorted list) designates, in the persisted store, the
\* snapshot of the entry the user clicked; stated for a page that shows the
\* store as it is now, every snapshot having a time of capture
C37_SentIndexDesignatesClicked ==
    (\A i \in DOMAIN inactiveWindows : HasTime(inactiveWindows[i])) =>
        \A index \in 0..(Len(inactiveWindows) - 1) :
            inactiveWindows[index + 1] = sortedWindows(inactiveWindows)[index + 1]

\* C38: the queue that getTabs attaches to a tab belongs to the tab's
\* current page: when the answer is built, a session record used for a tab
\* has the canonical key of the URL that tabs.query reported for the tab,
\* for a tab that still shows that URL (a record found under the canonical
\* key has it by the lookup itself)
C38_AttachedQueueOfCurrentPage ==
    [][(getTabs.pc = "get" /\ getTabs'.pc = "done") =>
          \A i \in DOMAIN getTabs.tabs :
              LET tab == getTabs.tabs[i]
                  answer == getTabs'.tabs[i]
              IN  (/\ answer.attached /\ ~answer.hasRestoredQueue
                   /\ tab.id \in LiveTabs /\ tabUrl[tab.id] = tab.url) =>
                      /\ extractYouTubeQueueFromUrl(tab.url) # null
                      /\ youtubeQueues[SessionKey(tab.id)].baseUrl =
                             extractYouTubeQueueFromUrl(tab.url).baseUrl
      ]_vars

\* ------------------------------------------------------- the parent relation
RECURSIVE ParentAfter(_, _, _)
\* the identity reached from t by following n parent links of relationships
\* (undefined when the chain ends before)
ParentAfter(relationships, t, n) ==
    IF n = 0 \/ t = undefined THEN t
    ELSE ParentAfter(relationships, relationships[t], n - 1)

\* C39: the parent relation stored in tabRelationships is acyclic in every
\* reachable state: following parent links from a tab never returns to it
C39_ParentsAcyclic ==
    \A t \in TabIds : \A n \in 1..MaxTab :
        ParentAfter(tabRelationships, t, n) # t

\* C40: handling the removal of tab t changes at most the entry keyed by t:
\* the write of the tab-removed handler leaves every other entry of the
\* Relationship Store as it is, in particular the entries of the children
\* of t, which still name t as parent
C40_RemovalChangesOwnEntryOnly ==
    [][\A t \in TabIds :
          (removed[t].pc = "set" /\ removed'[t].pc = "idle") =>
              \A u \in TabIds \ {t} : tabRelationships'[u] = tabRelationships[u]
      ]_vars

====
